---- MODULE Spec2Model ----
(***************************************************************************)
(* The OCR cluster of balancer.py and worker.py: the LoadBalancer object   *)
(* (worker registry, statistics, scheduler, forwarder, health poller) and  *)
(* the worker processes it talks to (worker_state, /status, /predict).     *)
(*                                                                         *)
(* Workers are identified by their position in the pool: worker i stands   *)
(* for {"id": "worker-i", "url": "http://localhost:5555+i"}. A worker      *)
(* process names itself after its port: WorkerId(i) stands for its         *)
(* WORKER_ID "worker-<5555+i>".                                            *)
(* Timestamps (last_check, balancer_time, uptime) are not modelled.        *)
(***************************************************************************)
EXTENDS Integers, Sequences, FiniteSets, TLC

\* ------------------------------------------------------------------ bounds
NUM_WORKERS == 2          \* NUM_WORKERS of the cluster specifications
NumJobs == 2             \* requests made to the balancer in one behaviour
SeqCalls == 1            \* of them, handed to forward_request in the sequential specifications
SchedWorkers == 3        \* largest pool of the scheduler specification
SchedMaxCount == 3       \* largest requests_per_worker count tried there
RaceWorkers == 2         \* largest pool of the race specification
RaceMaxCount == 1        \* largest requests_per_worker count tried there

\* balancer.py line 19: the port of the pool's first worker.
BASE_WORKER_PORT == 5556

\* get_best_worker's "return None"
None == 0

Jobs == 1..NumJobs

VARIABLES
    workers,        \* LoadBalancer.workers: the pool, in its fixed order
    worker_status,  \* LoadBalancer.worker_status: id -> recorded state
    stats,          \* LoadBalancer.stats
    incs,           \* per counter of stats, the += 1 statements executed on it
    poll,           \* the health checker thread: its position in check_loop
                    \* and the answer of the GET it has made
    boot,           \* the main thread of balancer.py run as a script: its
                    \* position in the wait loop of lines 244-248
    up,             \* worker process w is running and answers on its port
    ready,          \* worker.py: PADDLE_AVAILABLE and pipeline is not None
    worker_state,   \* worker.py worker_state, one per worker process
    handler,        \* worker.py predict(): the request past the busy gate
    pc,             \* forward_request call j: its position
    worker,         \* forward_request call j: local variable worker
    tmp,            \* forward_request call j: counter value loaded by +=
    exc,            \* forward_request call j: exception being handled
    resp,           \* forward_request call j: resp of requests.post (while
                    \* the call still waits, the answer on its way to it)
    result,         \* forward_request call j: the (body, status) returned
    probe,          \* _check_worker of call j: resp of requests.get
    pre,            \* stats as they were when the latest call that began
                    \* with no other call in progress began
    scan,           \* get_best_worker of call j: its locals while it reads the
                    \* registry worker by worker
    seen,           \* what there has been to read since call j's
                    \* get_best_worker began: what the selection policy gives
                    \* on each state of the registry and the counts (best),
                    \* the workers recorded healthy and idle in every one of
                    \* them (idle), those recorded busy in every one (busy),
                    \* and the calls whose submission was out by then (out)
    hc,             \* a GET /health request: its position and its count
    hseen           \* the healthy count of each registry state there has
                    \* been since that request began

vars == <<workers, worker_status, stats, incs, poll, boot, up, ready,
          worker_state, handler, pc, worker, tmp, exc, resp, result, probe,
          pre, scan, seen, hc, hseen>>

balancerVars == <<workers, worker_status, stats, incs, poll, boot>>
workerVars == <<up, ready, worker_state, handler>>
jobVars == <<pc, worker, tmp, exc, resp, result, probe, pre>>
readerVars == <<scan, seen, hc, hseen>>

\* ------------------------------------------------------- LoadBalancer data
\* WORKERS: the pool of n workers, in order.
Pool(n) == [i \in 1..n |-> i]

Ids(pool) == {pool[i] : i \in 1..Len(pool)}

\* Mutant of InitStatus: a worker is recorded healthy at construction.
InitStatusHealthy == [healthy |-> TRUE, busy |-> FALSE]

\* __init__: every worker starts unhealthy and idle; the initial dict has no
\* requests_processed key.
InitStatus == [healthy |-> FALSE, busy |-> FALSE]

\* __init__: all counters 0, one requests_per_worker key per worker.
InitStats(pool) ==
    [total_requests |-> 0, successful_requests |-> 0, failed_requests |-> 0,
     requests_per_worker |-> [w \in Ids(pool) |-> 0]]

\* Mutant of Get: the default, whatever the dict holds.
GetDefault(d, k, default) == default

\* dict.get(key, default)
Get(d, k, default) == IF k \in DOMAIN d THEN d[k] ELSE default

\* Mutant of ProbeRecord: busy is recorded whatever the worker reports.
ProbeRecordBusy(data) ==
    [healthy |-> Get(data, "ready", FALSE),
     busy |-> TRUE,
     requests_processed |-> Get(data, "requests_processed", 0)]

\* The dict a probe writes from the JSON of a 200 answer of /status.
ProbeRecord(data) ==
    [healthy |-> Get(data, "ready", FALSE),
     busy |-> Get(data, "busy", FALSE),
     requests_processed |-> Get(data, "requests_processed", 0)]

\* ------------------------------------------------------------- scheduler
\* available = [w for w in workers if healthy and not busy]
Available(pool, ws) ==
    SelectSeq(pool, LAMBDA w : ws[w].healthy /\ ~ws[w].busy)

\* healthy = [w for w in workers if healthy]
HealthyOnes(pool, ws) == SelectSeq(pool, LAMBDA w : ws[w].healthy)

\* Mutant of MinByCount: on a tie the last of the smallest, not the first.
MinByCountLast(s, rpw) ==
    s[CHOOSE i \in 1..Len(s) :
        \A k \in 1..Len(s) :
            \/ rpw[s[i]] < rpw[s[k]]
            \/ rpw[s[i]] = rpw[s[k]] /\ i >= k]

\* min(s, key=count): the first element of s whose count is the smallest.
MinByCount(s, rpw) ==
    s[CHOOSE i \in 1..Len(s) :
        \A k \in 1..Len(s) :
            \/ rpw[s[i]] < rpw[s[k]]
            \/ rpw[s[i]] = rpw[s[k]] /\ i <= k]

\* Lines 75-93 on one registry and one table of counts: what get_best_worker
\* returns when nothing is written while it runs.
get_best_worker(pool, ws, rpw) ==
    IF Len(Available(pool, ws)) > 0
    THEN MinByCount(Available(pool, ws), rpw)
    ELSE IF Len(HealthyOnes(pool, ws)) > 0
         THEN MinByCount(HealthyOnes(pool, ws), rpw)
         ELSE None

\* Lines 155-169, get_cluster_status: sum(1 for w in workers if healthy),
\* counted over the first n workers of the pool.
SumHealthy(pool, ws, n) ==
    LET RECURSIVE Acc(_)
        Acc(i) == IF i = 0 THEN 0
                  ELSE Acc(i - 1) + (IF ws[pool[i]].healthy THEN 1 ELSE 0)
    IN Acc(n)

\* Lines 155-169: the dict get_cluster_status returns (urls left out).
get_cluster_status(pool, ws, st) ==
    [workers |-> [i \in 1..Len(pool) |-> ("id" :> pool[i]) @@ ws[pool[i]]],
     stats |-> st,
     healthy_workers |-> SumHealthy(pool, ws, Len(pool)),
     total_workers |-> Len(pool)]

\* Lines 182-191: the JSON of GET /health, from get_cluster_status's dict.
health(status) ==
    [status |-> IF status.healthy_workers > 0 THEN "healthy" ELSE "unhealthy",
     mode |-> "cluster",
     healthy_workers |-> status.healthy_workers,
     total_workers |-> status.total_workers]

\* ------------------------------------------------------------ worker.py
InitWorkerState == [busy |-> FALSE, current_request |-> None, requests_processed |-> 0]

\* Lines 50-51: the process serving the URL of the pool's worker w listens on
\* PORT = BASE_WORKER_PORT + (w - 1) and its WORKER_ID is "worker-<PORT>";
\* the number stands for the name.
WorkerId(w) == BASE_WORKER_PORT + (w - 1)

\* No request is past the busy gate.
NoHandler == [at |-> "none", out |-> [status |-> 0, body |-> [raw |-> "none"]]]

\* status(): the JSON body of GET /status.
StatusBody(w) ==
    [ready |-> ready[w],
     busy |-> worker_state[w].busy,
     requests_processed |-> worker_state[w].requests_processed]

\* The bodies predict() answers with, and the status codes.
OkBody(w) == [ok |-> TRUE, worker_id |-> WorkerId(w)]
ErrBody(e) == [ok |-> FALSE, error |-> e]
\* A body that resp.json() cannot parse.
Garbage == [raw |-> "not json"]
\* A JSON body that is not an object (a list; a string, a number or null
\* fare alike): resp.json() returns it, an item assignment on it raises.
JsonList == [raw |-> "json list"]
\* A JSON object that is neither status()'s nor predict()'s: none of their
\* keys.
ForeignBody == [service |-> "other"]
\* The JSON object of a gateway's error answer.
BadGateway == [detail |-> "Bad Gateway"]

NoResp == [status |-> 0, body |-> [raw |-> "none"]]

\* Mutant of Parses: any body is taken as parsed.
ParsesAlways(body) == TRUE

\* resp.json() returns (rather than raises).
Parses(body) == body # Garbage

\* Line 123: result["routed_to"] = ... is carried out (rather than raises):
\* what resp.json() returned is a dict.
IsObject(body) == body # JsonList

\* get_best_worker before its first read. status is the dict line 80 holds:
\* the registry's own (live) or, once a probe has put a new dict in its
\* place, the old one, with the busy value it had.
NoScan ==
    [i |-> 1, available |-> <<>>, healthy |-> <<>>, keys |-> <<>>,
     status |-> [live |-> TRUE, busy |-> FALSE]]

\* Nothing seen: no get_best_worker in progress.
NoSeen == [best |-> {}, idle |-> {}, busy |-> {}, out |-> {}]

\* A /health request not yet made.
NoHealthCall == [at |-> "idle", i |-> 1, n |-> 0]

\* The checker thread at the first GET of a cycle; the main thread once
\* app.run serves (or the module imported, with no wait loop at all), and at
\* the top of the wait loop.
PollStart == [at |-> "probe", i |-> 1, resp |-> NoResp]
PollAsleep == [at |-> "sleep", i |-> 1, resp |-> NoResp]
BootDone == [at |-> "done", i |-> 1, resp |-> NoResp, n |-> 0]
BootStart == [at |-> "count", i |-> 1, resp |-> NoResp, n |-> 0]

\* ------------------------------------------------------------------ Init
Init ==
    /\ workers = Pool(NUM_WORKERS)
    /\ worker_status = [w \in Ids(Pool(NUM_WORKERS)) |-> InitStatus]
    /\ stats = InitStats(Pool(NUM_WORKERS))
    /\ incs = InitStats(Pool(NUM_WORKERS))
    /\ poll = PollStart
    /\ boot \in {BootDone, BootStart}
    /\ up = [w \in Ids(Pool(NUM_WORKERS)) |-> FALSE]
    /\ ready = [w \in Ids(Pool(NUM_WORKERS)) |-> FALSE]
    /\ worker_state = [w \in Ids(Pool(NUM_WORKERS)) |-> InitWorkerState]
    /\ handler = [w \in Ids(Pool(NUM_WORKERS)) |-> NoHandler]
    /\ pc = [j \in Jobs |-> "idle"]
    /\ worker = [j \in Jobs |-> None]
    /\ tmp = [j \in Jobs |-> 0]
    /\ exc = [j \in Jobs |-> "none"]
    /\ resp = [j \in Jobs |-> NoResp]
    /\ result = [j \in Jobs |-> NoResp]
    /\ probe = [j \in Jobs |-> NoResp]
    /\ pre = InitStats(Pool(NUM_WORKERS))
    /\ scan = [j \in Jobs |-> NoScan]
    /\ seen = [j \in Jobs |-> NoSeen]
    /\ hc = NoHealthCall
    /\ hseen = {}

\* ------------------------------------------------------ probes of /status
\* What a GET /status of worker w can come to. A running worker process
\* answers 200 with status()'s body ("ok") unless the answer takes longer
\* than the timeout of the GET (3 s at line 60, 2 s at line 143), which
\* raises ("err"). When the process is not running the GET raises as well
\* (connection error: "err"), or what stands at its URL answers: with another
\* status ("bad"), or with 200 and a JSON object of its own ("foreign"). A
\* 200 answer whose body is not JSON makes resp.json() raise, which is "err".
ProbeOutcomes(w) == IF up[w] THEN {"ok", "err"} ELSE {"err", "bad", "foreign"}

\* The answer requests.get returns for an outcome that is not an exception.
ProbeAnswer(w, o) ==
    CASE o = "ok" -> [status |-> 200, body |-> StatusBody(w)]
      [] o = "foreign" -> [status |-> 200, body |-> ForeignBody]
      [] o = "bad" -> [status |-> 502, body |-> Garbage]

\* The positions of a call inside get_best_worker.
Scanning == {"scan_available", "scan_busy", "scan_healthy", "scan_min"}

\* seen once the registry is ws and the counts are rpw.
SeenAfter(ws, rpw) ==
    [j \in Jobs |->
        IF pc[j] \in Scanning
        THEN [best |-> seen[j].best \cup {get_best_worker(workers, ws, rpw)},
              idle |-> {w \in seen[j].idle : ws[w].healthy /\ ~ws[w].busy},
              busy |-> {w \in seen[j].busy : ws[w].busy},
              out |-> seen[j].out]
        ELSE seen[j]]

\* A write to the registry is a new registry state for every get_best_worker
\* and every /health count that is reading it at the time.
Observe ==
    /\ seen' = SeenAfter(worker_status', stats.requests_per_worker)
    /\ hseen' = IF hc.at = "sum"
                THEN hseen \cup {SumHealthy(workers, worker_status', Len(workers))}
                ELSE hseen

\* Lines 62-67 and 146-151 put a new dict in the registry. A get_best_worker
\* that has fetched the old dict of worker w (line 80) and not yet read its
\* busy key goes on reading the old dict.
Detach(w) ==
    [j \in Jobs |->
        IF pc[j] = "scan_busy" /\ workers[scan[j].i] = w /\ scan[j].status.live
        THEN [scan[j] EXCEPT !.status = [live |-> FALSE, busy |-> worker_status[w].busy]]
        ELSE scan[j]]

\* ------------------------------------------------- _check_all_workers
\* _check_all_workers is run by the checker thread (check_loop) and, while
\* balancer.py started as a script waits for its workers, by the main thread
\* too (line 248). th is the thread's position, thn its next position.
\* for worker in self.workers: the next worker, or out of the loop.
CheckAdvance(th, after) ==
    IF th.i < Len(workers)
    THEN [th EXCEPT !.at = "probe", !.i = @ + 1, !.resp = NoResp]
    ELSE [th EXCEPT !.at = after, !.i = 1, !.resp = NoResp]

\* Line 60: requests.get returns; the thread holds the answer.
CheckAnswered(th, thn) ==
    /\ th.at = "probe"
    /\ \E o \in ProbeOutcomes(workers[th.i]) \ {"err"} :
          thn = [th EXCEPT !.at = "write", !.resp = ProbeAnswer(workers[th.i], o)]
    /\ UNCHANGED <<readerVars, workers, worker_status, stats, incs, workerVars, jobVars>>

\* Lines 60, 71-72: requests.get (or resp.json()) raises; healthy = False.
CheckRaised(th, thn) ==
    /\ th.at = "probe"
    /\ "err" \in ProbeOutcomes(workers[th.i])
    /\ worker_status' = [worker_status EXCEPT ![workers[th.i]].healthy = FALSE]
    /\ thn = [th EXCEPT !.at = "clear"]
    /\ Observe
    /\ UNCHANGED <<scan, hc, workers, stats, incs, workerVars, jobVars>>

\* Lines 61-70, with the answer read earlier: a 200 answer replaces the
\* worker's dict, any other status sets healthy = False in it.
CheckWrite(th, thn, next) ==
    /\ th.at = "write"
    /\ IF th.resp.status = 200
       THEN /\ worker_status' = [worker_status EXCEPT
                                    ![workers[th.i]] = ProbeRecord(th.resp.body)]
            /\ scan' = Detach(workers[th.i])
       ELSE /\ worker_status' = [worker_status EXCEPT ![workers[th.i]].healthy = FALSE]
            /\ UNCHANGED scan
    /\ thn = next
    /\ Observe
    /\ UNCHANGED <<hc, workers, stats, incs, workerVars, jobVars>>

\* Line 73, the except branch's second write: busy = False.
CheckClear(th, thn, next) ==
    /\ th.at = "clear"
    /\ worker_status' = [worker_status EXCEPT ![workers[th.i]].busy = FALSE]
    /\ thn = next
    /\ Observe
    /\ UNCHANGED <<scan, hc, workers, stats, incs, workerVars, jobVars>>

\* ---------------------------------------------------------- health poller
\* Mutant of PollAdvance: the loop ends after the pool's first worker.
PollAdvanceFirstOnly == PollAsleep

\* check_loop: after a worker the next one, after the last time.sleep.
PollAdvance == CheckAdvance(poll, "sleep")

\* The checker thread's GET is answered.
PollAnswered == CheckAnswered(poll, poll') /\ UNCHANGED boot

\* The checker thread's GET raises.
PollRaised == CheckRaised(poll, poll') /\ UNCHANGED boot

\* Line 60 in the checker thread.
PollProbe == PollAnswered \/ PollRaised

\* Lines 61-70 in the checker thread.
PollWrite == CheckWrite(poll, poll', PollAdvance) /\ UNCHANGED boot

\* Mutant of PollClear: the probe's exception leaves _check_all_workers and
\* ends the checker thread.
PollClearEscapes ==
    CheckClear(poll, poll', [poll EXCEPT !.at = "stopped"]) /\ UNCHANGED boot

\* Line 73 in the checker thread.
PollClear == CheckClear(poll, poll', PollAdvance) /\ UNCHANGED boot

\* check_loop: time.sleep(HEALTH_CHECK_INTERVAL) is over, the next cycle begins.
PollSleep ==
    /\ poll.at = "sleep"
    /\ poll' = PollStart
    /\ UNCHANGED <<readerVars, workers, worker_status, stats, incs, boot, workerVars, jobVars>>

\* ----------------------------------------- the wait loop of lines 244-248
\* Line 245: one read of the generator under sum(); after the last, line 246:
\* with every worker healthy the loop is over, else sleep(2) and a round of
\* _check_all_workers.
BootCount ==
    /\ boot.at = "count"
    /\ LET n == boot.n + (IF worker_status[workers[boot.i]].healthy THEN 1 ELSE 0) IN
       boot' = IF boot.i < Len(workers)
               THEN [boot EXCEPT !.i = @ + 1, !.n = n]
               ELSE IF n < Len(workers)
                    THEN [boot EXCEPT !.at = "probe", !.i = 1, !.n = 0]
                    ELSE BootDone
    /\ UNCHANGED <<readerVars, workers, worker_status, stats, incs, poll, workerVars, jobVars>>

\* Line 244: max_wait seconds have gone by at the top of the loop.
BootTimeout ==
    /\ boot.at = "count" /\ boot.i = 1
    /\ boot' = BootDone
    /\ UNCHANGED <<readerVars, workers, worker_status, stats, incs, poll, workerVars, jobVars>>

\* Line 248: after the round, back to the top of the wait loop.
BootAdvance == CheckAdvance(boot, "count")

\* Line 248, _check_all_workers in the main thread.
BootAnswered == CheckAnswered(boot, boot') /\ UNCHANGED poll
BootRaised == CheckRaised(boot, boot') /\ UNCHANGED poll
BootProbe == BootAnswered \/ BootRaised
BootWrite == CheckWrite(boot, boot', BootAdvance) /\ UNCHANGED poll
BootClear == CheckClear(boot, boot', BootAdvance) /\ UNCHANGED poll

\* -------------------------------------------------------- forward_request
\* Mutant of NoCapacityResult: answered as a generic failure.
NoCapacityResultAs500 == [status |-> 500, body |-> ErrBody("No hay workers disponibles")]

\* Mutant of TimeoutResult: the timeout caught by the generic handler.
TimeoutResultAs500(w) == [status |-> 500, body |-> ErrBody("str(e)")]

NoCapacityResult == [status |-> 503, body |-> ErrBody("No hay workers disponibles")]
TimeoutResult(w) == [status |-> 504, body |-> [ok |-> FALSE, error |-> "Timeout al procesar en", id |-> w]]
ErrorResult == [status |-> 500, body |-> ErrBody("str(e)")]

\* No forward_request call is between its first and its last step.
NoCallInProgress == \A k \in Jobs : pc[k] \in {"idle", "returned"}

\* Line 97, load: self.stats["total_requests"] is read. Requests are served
\* once app.run is reached (line 255).
Call(j) ==
    /\ pc[j] = "idle"
    /\ boot.at = "done"
    /\ \A k \in Jobs : k < j => pc[k] # "idle"
    /\ tmp' = [tmp EXCEPT ![j] = stats.total_requests]
    /\ pre' = IF NoCallInProgress THEN stats ELSE pre
    /\ pc' = [pc EXCEPT ![j] = "w_total"]
    /\ UNCHANGED <<readerVars, balancerVars, workerVars, worker, exc, resp, result, probe>>

\* Line 97, store.
WriteTotal(j) ==
    /\ pc[j] = "w_total"
    /\ stats' = [stats EXCEPT !.total_requests = tmp[j] + 1]
    /\ incs' = [incs EXCEPT !.total_requests = @ + 1]
    /\ tmp' = [tmp EXCEPT ![j] = 0]
    /\ pc' = [pc EXCEPT ![j] = "select"]
    /\ UNCHANGED <<readerVars, workers, worker_status, poll, boot, workerVars,
                   worker, exc, resp, result, probe, pre>>

\* ------------------------------------- get_best_worker, read by read
\* Lines 77-93 taken one read of shared data at a time: the registry and the
\* counts are read with no lock held while other threads write them.
\* Line 77: available = [].
ScanStart(j) ==
    /\ pc[j] = "select"
    /\ pc' = [pc EXCEPT ![j] = "scan_available"]
    /\ scan' = [scan EXCEPT ![j] = NoScan]
    /\ seen' = [seen EXCEPT ![j] =
                   [best |-> {get_best_worker(workers, worker_status,
                                              stats.requests_per_worker)},
                    idle |-> {w \in Ids(workers) : worker_status[w].healthy
                                                     /\ ~worker_status[w].busy},
                    busy |-> {w \in Ids(workers) : worker_status[w].busy},
                    out |-> {k \in Jobs : pc[k] \in {"post", "wait"}}]]
    /\ UNCHANGED <<balancerVars, workerVars, worker, tmp, exc, resp, result,
                   probe, pre, hc, hseen>>

\* Lines 78-88, the end of one iteration of the first loop with available as
\* it is by then: the next worker; after the last, the min over available if
\* there is any, else on to the second list.
AfterAvailable(j, av) ==
    IF scan[j].i < Len(workers)
    THEN /\ scan' = [scan EXCEPT ![j] = [NoScan EXCEPT !.i = scan[j].i + 1,
                                                       !.available = av]]
         /\ pc' = [pc EXCEPT ![j] = "scan_available"]
    ELSE /\ scan' = [scan EXCEPT ![j] = [NoScan EXCEPT !.available = av]]
         /\ pc' = [pc EXCEPT ![j] = IF Len(av) > 0 THEN "scan_min" ELSE "scan_healthy"]

\* Lines 80-81: status = self.worker_status[id], and status["healthy"] is
\* read. A worker read unhealthy is passed over; "and" reads busy only of a
\* worker read healthy.
ScanAvailable(j) ==
    /\ pc[j] = "scan_available"
    /\ IF worker_status[workers[scan[j].i]].healthy
       THEN /\ pc' = [pc EXCEPT ![j] = "scan_busy"]
            /\ UNCHANGED scan
       ELSE AfterAvailable(j, scan[j].available)
    /\ UNCHANGED <<balancerVars, workerVars, worker, tmp, exc, resp, result,
                   probe, pre, seen, hc, hseen>>

\* The busy key of the dict status of line 80, as a read finds it.
StatusBusy(j) ==
    IF scan[j].status.live
    THEN worker_status[workers[scan[j].i]].busy
    ELSE scan[j].status.busy

\* Mutant of ScanBusy: the busy key is not looked at.
ScanBusyIgnored(j) ==
    /\ pc[j] = "scan_busy"
    /\ AfterAvailable(j, Append(scan[j].available, workers[scan[j].i]))
    /\ UNCHANGED <<balancerVars, workerVars, worker, tmp, exc, resp, result,
                   probe, pre, seen, hc, hseen>>

\* Lines 81-82: status["busy"] is read, and the worker appended if not busy.
ScanBusy(j) ==
    /\ pc[j] = "scan_busy"
    /\ AfterAvailable(j, IF StatusBusy(j) THEN scan[j].available
                         ELSE Append(scan[j].available, workers[scan[j].i]))
    /\ UNCHANGED <<balancerVars, workerVars, worker, tmp, exc, resp, result,
                   probe, pre, seen, hc, hseen>>

\* Mutant of ScanHealthy: no second list; with no worker available, None.
ScanHealthyNone(j) ==
    /\ pc[j] = "scan_healthy"
    /\ worker' = [worker EXCEPT ![j] = None]
    /\ pc' = [pc EXCEPT ![j] = "r_fail"]
    /\ scan' = [scan EXCEPT ![j] = NoScan]
    /\ seen' = [seen EXCEPT ![j] = NoSeen]
    /\ UNCHANGED <<balancerVars, workerVars, tmp, exc, resp, result, probe,
                   pre, hc, hseen>>

\* Mutant of ScanHealthy: the second list is the whole pool, healthy or not.
ScanHealthyAll(j) ==
    /\ pc[j] = "scan_healthy"
    /\ scan' = [scan EXCEPT ![j].i = 1, ![j].healthy = workers]
    /\ pc' = [pc EXCEPT ![j] = "scan_min"]
    /\ UNCHANGED <<balancerVars, workerVars, worker, tmp, exc, resp, result,
                   probe, pre, seen, hc, hseen>>

\* Lines 89-93: one read of the list comprehension; after the last, the min
\* over healthy if there is any, else None.
ScanHealthy(j) ==
    /\ pc[j] = "scan_healthy"
    /\ LET w == workers[scan[j].i]
           h == IF worker_status[w].healthy
                THEN Append(scan[j].healthy, w) ELSE scan[j].healthy
       IN IF scan[j].i < Len(workers)
          THEN /\ scan' = [scan EXCEPT ![j].i = @ + 1, ![j].healthy = h]
               /\ UNCHANGED <<pc, worker, seen>>
          ELSE IF Len(h) > 0
          THEN /\ scan' = [scan EXCEPT ![j].i = 1, ![j].healthy = h]
               /\ pc' = [pc EXCEPT ![j] = "scan_min"]
               /\ UNCHANGED <<worker, seen>>
          ELSE /\ worker' = [worker EXCEPT ![j] = None]
               /\ pc' = [pc EXCEPT ![j] = "r_fail"]
               /\ scan' = [scan EXCEPT ![j] = NoScan]
               /\ seen' = [seen EXCEPT ![j] = NoSeen]
    /\ UNCHANGED <<balancerVars, workerVars, tmp, exc, resp, result, probe,
                   pre, hc, hseen>>

\* The list min() runs over: available (line 86) or healthy (line 91).
ScanList(j) ==
    IF Len(scan[j].available) > 0 THEN scan[j].available ELSE scan[j].healthy

\* The keys min() has computed, by worker.
ScanKeys(list, keys) ==
    [w \in Ids(list) |-> keys[CHOOSE i \in 1..Len(list) : list[i] = w]]

\* Lines 86 and 91: min() calls its key on one element of the list,
\* self.stats["requests_per_worker"].get(id, 0); after the last, the first
\* element with the smallest key is returned.
ScanMin(j) ==
    /\ pc[j] = "scan_min"
    /\ LET list == ScanList(j)
           keys == Append(scan[j].keys,
                          Get(stats.requests_per_worker, list[scan[j].i], 0))
       IN IF scan[j].i < Len(list)
          THEN /\ scan' = [scan EXCEPT ![j].i = @ + 1, ![j].keys = keys]
               /\ UNCHANGED <<pc, worker, seen>>
          ELSE /\ worker' = [worker EXCEPT ![j] = MinByCount(list, ScanKeys(list, keys))]
               /\ pc' = [pc EXCEPT ![j] = "mark"]
               /\ scan' = [scan EXCEPT ![j] = NoScan]
               /\ seen' = [seen EXCEPT ![j] = NoSeen]
    /\ UNCHANGED <<balancerVars, workerVars, tmp, exc, resp, result, probe,
                   pre, hc, hseen>>

\* Mutant of Select: the worker is chosen and claimed in one step.
SelectAndMark(j) ==
    /\ pc[j] = "select"
    /\ LET w == get_best_worker(workers, worker_status, stats.requests_per_worker) IN
       /\ worker' = [worker EXCEPT ![j] = w]
       /\ pc' = [pc EXCEPT ![j] = IF w = None THEN "r_fail" ELSE "post"]
       /\ worker_status' = IF w = None THEN worker_status
                           ELSE [worker_status EXCEPT ![w].busy = TRUE]
    /\ UNCHANGED <<readerVars, workers, stats, incs, poll, boot, workerVars,
                   tmp, exc, resp, result, probe, pre>>

\* Lines 99-100: worker = self.get_best_worker(); if not worker.
Select(j) ==
    \/ ScanStart(j) \/ ScanAvailable(j) \/ ScanBusy(j) \/ ScanHealthy(j)
    \/ ScanMin(j)

\* Line 105: the advisory busy mark.
Mark(j) ==
    /\ pc[j] = "mark"
    /\ worker_status' = [worker_status EXCEPT ![worker[j]].busy = TRUE]
    /\ pc' = [pc EXCEPT ![j] = "post"]
    /\ Observe
    /\ UNCHANGED <<scan, hc, workers, stats, incs, poll, boot, workerVars,
                   worker, tmp, exc, resp, result, probe, pre>>

\* Lines 101, 127, 131, 134, load: self.stats["failed_requests"] is read.
ReadFailed(j) ==
    /\ pc[j] = "r_fail"
    /\ tmp' = [tmp EXCEPT ![j] = stats.failed_requests]
    /\ pc' = [pc EXCEPT ![j] = "w_fail"]
    /\ UNCHANGED <<readerVars, balancerVars, workerVars, worker, exc, resp, result, probe, pre>>

\* Lines 101, 127, 131, 134, store, and what follows the increment:
\* line 102 (return 503), line 128 (resp.json() of a non-200 answer, which
\* raises on a body that does not parse), line 132 or line 135.
WriteFailed(j) ==
    /\ pc[j] = "w_fail"
    /\ stats' = [stats EXCEPT !.failed_requests = tmp[j] + 1]
    /\ incs' = [incs EXCEPT !.failed_requests = @ + 1]
    /\ IF worker[j] = None
       THEN /\ result' = [result EXCEPT ![j] = NoCapacityResult]
            /\ pc' = [pc EXCEPT ![j] = "done"]
            /\ UNCHANGED exc
       ELSE IF exc[j] = "timeout"
       THEN /\ result' = [result EXCEPT ![j] = TimeoutResult(worker[j])]
            /\ pc' = [pc EXCEPT ![j] = "reprobe"]
            /\ UNCHANGED exc
       ELSE IF exc[j] = "error"
       THEN /\ result' = [result EXCEPT ![j] = ErrorResult]
            /\ pc' = [pc EXCEPT ![j] = "reprobe"]
            /\ UNCHANGED exc
       ELSE IF Parses(resp[j].body)
       THEN /\ result' = [result EXCEPT ![j] = resp[j]]
            /\ pc' = [pc EXCEPT ![j] = "reprobe"]
            /\ UNCHANGED exc
       ELSE /\ exc' = [exc EXCEPT ![j] = "error"]
            /\ pc' = [pc EXCEPT ![j] = "r_fail"]
            /\ UNCHANGED result
    /\ tmp' = [tmp EXCEPT ![j] = 0]
    /\ UNCHANGED <<readerVars, workers, worker_status, poll, boot, workerVars,
                   worker, resp, probe, pre>>

\* Mutant of Gate: the busy flag is not looked at.
GateAlwaysOpen(w) ==
    IF ~ready[w] THEN [status |-> 503, body |-> ErrBody("OCR no disponible")]
    ELSE NoResp

\* worker.py predict(), lines 463-476: the request of call j reaches worker w.
\* Not ready: 503. Busy: 503. Otherwise the gate is passed and run_ocr_formula
\* starts. The answer is the (status, body) pair, or NoResp while it runs.
Gate(w) ==
    IF ~ready[w] THEN [status |-> 503, body |-> ErrBody("OCR no disponible")]
    ELSE IF worker_state[w].busy THEN [status |-> 503, body |-> ErrBody("Worker ocupado")]
    ELSE NoResp

\* Lines 110-114: requests.post is sent. An unreachable worker raises a
\* connection error; a reachable one runs predict() up to its busy gate, and
\* the 503 of a closed gate sets out for the caller.
Post(j) ==
    /\ pc[j] = "post"
    /\ LET w == worker[j] IN
       IF ~up[w]
       THEN /\ exc' = [exc EXCEPT ![j] = "error"]
            /\ pc' = [pc EXCEPT ![j] = "r_fail"]
            /\ UNCHANGED <<resp, worker_state, handler>>
       ELSE IF Gate(w) # NoResp
       THEN /\ resp' = [resp EXCEPT ![j] = Gate(w)]
            /\ pc' = [pc EXCEPT ![j] = "wait"]
            /\ UNCHANGED <<exc, worker_state, handler>>
       ELSE /\ worker_state' = [worker_state EXCEPT ![w].busy = TRUE,
                                                    ![w].current_request = j]
            /\ handler' = [handler EXCEPT ![w].at = "run"]
            /\ pc' = [pc EXCEPT ![j] = "wait"]
            /\ UNCHANGED <<exc, resp>>
    /\ UNCHANGED <<readerVars, balancerVars, up, ready, worker, tmp, result, probe, pre>>

\* The statuses an answer that is not worker.py's can carry: 200, and the
\* error statuses, among them the three forward_request answers with itself
\* (500, 503, 504). Line 118 tells 200 from the rest, line 128 returns the
\* status as it came.
ForeignStatuses == {200, 404, 500, 502, 503, 504}

\* The bodies of such an answer: not JSON, JSON that is not an object, or a
\* JSON object of its own.
ForeignBodies == {Garbage, JsonList, ForeignBody, BadGateway}

\* The answers of what stands at a worker's URL and is not worker.py's
\* predict() (a proxy, a gateway, another service).
ForeignAnswers == [status : ForeignStatuses, body : ForeignBodies]

\* Lines 110-114: what answers at the worker's URL is not worker.py's
\* predict().
PostForeign(j) ==
    /\ pc[j] = "post"
    /\ \E a \in ForeignAnswers : resp' = [resp EXCEPT ![j] = a]
    /\ pc' = [pc EXCEPT ![j] = "wait"]
    /\ UNCHANGED <<readerVars, balancerVars, workerVars, worker, tmp, exc, result, probe, pre>>

\* Line 110: the answer has arrived and requests.post returns it.
Receive(j) ==
    /\ pc[j] = "wait"
    /\ resp[j] # NoResp
    /\ pc' = [pc EXCEPT ![j] = "resp"]
    /\ UNCHANGED <<readerVars, balancerVars, workerVars, worker, tmp, exc, resp, result, probe, pre>>

\* Mutant of Timeout: after the timeout the call selects again.
TimeoutRetry(j) ==
    /\ pc[j] = "wait"
    /\ pc' = [pc EXCEPT ![j] = "select"]
    /\ resp' = [resp EXCEPT ![j] = NoResp]
    /\ UNCHANGED <<readerVars, balancerVars, workerVars, worker, tmp, exc, result, probe, pre>>

\* Line 130: REQUEST_TIMEOUT elapsed before requests.post returned. The
\* worker goes on with the job; an answer still on its way is lost.
Timeout(j) ==
    /\ pc[j] = "wait"
    /\ exc' = [exc EXCEPT ![j] = "timeout"]
    /\ resp' = [resp EXCEPT ![j] = NoResp]
    /\ pc' = [pc EXCEPT ![j] = "r_fail"]
    /\ UNCHANGED <<readerVars, balancerVars, workerVars, worker, tmp, result, probe, pre>>

\* Line 133: requests.post raises an exception other than Timeout: the
\* connection broke before an answer was read (the worker process died with
\* the request in it or before its answer was out, the connection was reset
\* while the worker runs). An answer on its way is lost.
ConnLost(j) ==
    /\ pc[j] = "wait"
    /\ exc' = [exc EXCEPT ![j] = "error"]
    /\ resp' = [resp EXCEPT ![j] = NoResp]
    /\ pc' = [pc EXCEPT ![j] = "r_fail"]
    /\ UNCHANGED <<readerVars, balancerVars, workerVars, worker, tmp, result, probe, pre>>

\* Line 118: if resp.status_code == 200, and the load of the first +=
\* (line 119 or line 127).
HandleResp(j) ==
    /\ pc[j] = "resp"
    /\ IF resp[j].status = 200
       THEN /\ tmp' = [tmp EXCEPT ![j] = stats.successful_requests]
            /\ pc' = [pc EXCEPT ![j] = "w_succ"]
       ELSE /\ tmp' = [tmp EXCEPT ![j] = stats.failed_requests]
            /\ pc' = [pc EXCEPT ![j] = "w_fail"]
    /\ UNCHANGED <<readerVars, balancerVars, workerVars, worker, exc, resp, result, probe, pre>>

\* Line 119, store.
WriteSucc(j) ==
    /\ pc[j] = "w_succ"
    /\ stats' = [stats EXCEPT !.successful_requests = tmp[j] + 1]
    /\ incs' = [incs EXCEPT !.successful_requests = @ + 1]
    /\ tmp' = [tmp EXCEPT ![j] = 0]
    /\ pc' = [pc EXCEPT ![j] = "r_rpw"]
    /\ UNCHANGED <<readerVars, workers, worker_status, poll, boot, workerVars,
                   worker, exc, resp, result, probe, pre>>

\* Line 120, load.
ReadRpw(j) ==
    /\ pc[j] = "r_rpw"
    /\ tmp' = [tmp EXCEPT ![j] = stats.requests_per_worker[worker[j]]]
    /\ pc' = [pc EXCEPT ![j] = "w_rpw"]
    /\ UNCHANGED <<readerVars, balancerVars, workerVars, worker, exc, resp, result, probe, pre>>

\* Lines 122-125: result = resp.json(); result["routed_to"] = worker["id"].
SuccessResult(r, w) == [status |-> 200, body |-> ("routed_to" :> w) @@ r.body]

\* A write to the counts is a new state of what get_best_worker reads, too.
ObserveCounts == seen' = SeenAfter(worker_status, stats'.requests_per_worker)

\* Mutant of WriteRpw: the count of the pool's first worker is the one stored.
WriteRpwFirst(j) ==
    /\ pc[j] = "w_rpw"
    /\ stats' = [stats EXCEPT !.requests_per_worker[workers[1]] = tmp[j] + 1]
    /\ incs' = [incs EXCEPT !.requests_per_worker[workers[1]] = @ + 1]
    /\ IF Parses(resp[j].body) /\ IsObject(resp[j].body)
       THEN /\ result' = [result EXCEPT ![j] = SuccessResult(resp[j], worker[j])]
            /\ pc' = [pc EXCEPT ![j] = "reprobe"]
            /\ UNCHANGED exc
       ELSE /\ exc' = [exc EXCEPT ![j] = "error"]
            /\ pc' = [pc EXCEPT ![j] = "r_fail"]
            /\ UNCHANGED result
    /\ tmp' = [tmp EXCEPT ![j] = 0]
    /\ ObserveCounts
    /\ UNCHANGED <<scan, hc, hseen, workers, worker_status, poll, boot,
                   workerVars, worker, resp, probe, pre>>

\* Line 120, store, then lines 122-125; resp.json() raises on a body that does
\* not parse, and the item assignment of line 123 on a body that is not an
\* object, which line 133 catches.
WriteRpw(j) ==
    /\ pc[j] = "w_rpw"
    /\ stats' = [stats EXCEPT !.requests_per_worker[worker[j]] = tmp[j] + 1]
    /\ incs' = [incs EXCEPT !.requests_per_worker[worker[j]] = @ + 1]
    /\ IF Parses(resp[j].body) /\ IsObject(resp[j].body)
       THEN /\ result' = [result EXCEPT ![j] = SuccessResult(resp[j], worker[j])]
            /\ pc' = [pc EXCEPT ![j] = "reprobe"]
            /\ UNCHANGED exc
       ELSE /\ exc' = [exc EXCEPT ![j] = "error"]
            /\ pc' = [pc EXCEPT ![j] = "r_fail"]
            /\ UNCHANGED result
    /\ tmp' = [tmp EXCEPT ![j] = 0]
    /\ ObserveCounts
    /\ UNCHANGED <<scan, hc, hseen, workers, worker_status, poll, boot,
                   workerVars, worker, resp, probe, pre>>

\* Lines 136-138 and _check_worker, lines 142-144: requests.get of the
\* selected worker's /status. An exception is swallowed (line 152) and an
\* answer other than 200 ignored: the call returns. A 200 answer is held.
Reprobe(j) ==
    /\ pc[j] = "reprobe"
    /\ \E o \in ProbeOutcomes(worker[j]) :
          IF o \in {"ok", "foreign"}
          THEN /\ probe' = [probe EXCEPT ![j] = ProbeAnswer(worker[j], o)]
               /\ pc' = [pc EXCEPT ![j] = "reprobe_w"]
          ELSE /\ pc' = [pc EXCEPT ![j] = "done"]
               /\ UNCHANGED probe
    /\ UNCHANGED <<readerVars, balancerVars, workerVars, worker, tmp, exc, resp, result, pre>>

\* _check_worker, lines 145-151, with the answer read earlier: the worker's
\* dict is replaced.
ReprobeWrite(j) ==
    /\ pc[j] = "reprobe_w"
    /\ worker_status' = [worker_status EXCEPT ![worker[j]] = ProbeRecord(probe[j].body)]
    /\ scan' = Detach(worker[j])
    /\ probe' = [probe EXCEPT ![j] = NoResp]
    /\ pc' = [pc EXCEPT ![j] = "done"]
    /\ Observe
    /\ UNCHANGED <<hc, workers, stats, incs, poll, boot, workerVars, worker,
                   tmp, exc, resp, result, pre>>

\* balancer.py predict(), lines 209-210: the pair forward_request returned is
\* sent to the client, and the call's frame is gone.
Respond(j) ==
    /\ pc[j] = "done"
    /\ pc' = [pc EXCEPT ![j] = "returned"]
    /\ worker' = [worker EXCEPT ![j] = None]
    /\ exc' = [exc EXCEPT ![j] = "none"]
    /\ resp' = [resp EXCEPT ![j] = NoResp]
    /\ result' = [result EXCEPT ![j] = NoResp]
    /\ UNCHANGED <<readerVars, balancerVars, workerVars, tmp, probe, pre>>

\* ------------------------------------------------------------ GET /health
\* Line 185: health() calls get_cluster_status.
HealthStart ==
    /\ hc.at = "idle"
    /\ boot.at = "done"
    /\ hc' = [at |-> "sum", i |-> 1, n |-> 0]
    /\ hseen' = {SumHealthy(workers, worker_status, Len(workers))}
    /\ UNCHANGED <<balancerVars, workerVars, jobVars, scan, seen>>

\* Line 167: one read of the generator under sum(); after the last, the sum
\* is healthy_workers.
HealthRead ==
    /\ hc.at = "sum"
    /\ LET n == hc.n + (IF worker_status[workers[hc.i]].healthy THEN 1 ELSE 0) IN
       hc' = IF hc.i < Len(workers)
             THEN [at |-> "sum", i |-> hc.i + 1, n |-> n]
             ELSE [at |-> "done", i |-> 1, n |-> n]
    /\ UNCHANGED <<balancerVars, workerVars, jobVars, scan, seen, hseen>>

\* Lines 186-191: the JSON the request in progress answers with.
HealthAnswer == health([healthy_workers |-> hc.n, total_workers |-> Len(workers)])

\* Lines 186-191: the answer is sent.
HealthReturn ==
    /\ hc.at = "done"
    /\ hc' = NoHealthCall
    /\ hseen' = {}
    /\ UNCHANGED <<balancerVars, workerVars, jobVars, scan, seen>>

\* ------------------------------------------------------ worker processes
\* How the try block of predict() can end: 200 ("ok"); the image does not
\* decode, 400 ("decode"); an exception before run_ocr_formula has returned,
\* 500 ("internal"); an exception after requests_processed was incremented
\* (latex_to_plain_math at line 510 raising on a deeply nested formula), 500
\* ("late").
RunOutcomes == {"ok", "decode", "internal", "late"}

\* worker.py predict(), lines 478-521: the try block of the request past the
\* gate, up to the answer it will return.
WorkerRun(w) ==
    /\ handler[w].at = "run"
    /\ \E o \in RunOutcomes :
          CASE o = "ok" ->
                 /\ worker_state' = [worker_state EXCEPT ![w].requests_processed = @ + 1]
                 /\ handler' = [handler EXCEPT ![w].at = "finally",
                                               ![w].out = [status |-> 200, body |-> OkBody(w)]]
            [] o = "decode" ->
                 /\ handler' = [handler EXCEPT ![w].at = "finally",
                                               ![w].out = [status |-> 400, body |-> ErrBody("Error al decodificar imagen")]]
                 /\ UNCHANGED worker_state
            [] o = "internal" ->
                 /\ handler' = [handler EXCEPT ![w].at = "finally",
                                               ![w].out = [status |-> 500, body |-> ErrBody("str(e)")]]
                 /\ UNCHANGED worker_state
            [] o = "late" ->
                 /\ worker_state' = [worker_state EXCEPT ![w].requests_processed = @ + 1]
                 /\ handler' = [handler EXCEPT ![w].at = "finally",
                                               ![w].out = [status |-> 500, body |-> ErrBody("str(e)")]]
    /\ UNCHANGED <<readerVars, balancerVars, up, ready, jobVars>>

\* current_request of a submission that no forward_request call has made.
Direct == NumJobs + 1

\* worker.py predict(), lines 463-476, for a client other than the balancer
\* whose JSON body has no image field: the gate is passed as for any body.
\* (The balancer always posts {"image": ...}, line 112.)
DirectPost(w) ==
    /\ up[w]
    /\ Gate(w) = NoResp
    /\ worker_state' = [worker_state EXCEPT ![w].busy = TRUE,
                                            ![w].current_request = Direct]
    /\ handler' = [handler EXCEPT ![w].at = "noimage"]
    /\ UNCHANGED <<readerVars, balancerVars, up, ready, jobVars>>

\* worker.py predict(), lines 479-487: no image in the body, 400.
WorkerNoImage(w) ==
    /\ handler[w].at = "noimage"
    /\ handler' = [handler EXCEPT ![w].at = "finally",
                                  ![w].out = [status |-> 400,
                                              body |-> ErrBody("No se proporcionó imagen")]]
    /\ UNCHANGED <<readerVars, balancerVars, up, ready, worker_state, jobVars>>

\* Mutant of WorkerRelease: the finally block leaves busy as it is.
WorkerReleaseKeepsBusy(w) ==
    /\ handler[w].at = "finally"
    /\ worker_state' = [worker_state EXCEPT ![w].current_request = None]
    /\ handler' = [handler EXCEPT ![w] = NoHandler]
    /\ LET j == worker_state[w].current_request IN
       resp' = IF j \in Jobs /\ pc[j] = "wait"
               THEN [resp EXCEPT ![j] = handler[w].out]
               ELSE resp
    /\ UNCHANGED <<readerVars, balancerVars, up, ready, pc, worker, tmp, exc, result, probe, pre>>

\* worker.py predict(), lines 523-526: the finally block; the answer sets out
\* for the caller, if the caller still waits for it.
WorkerRelease(w) ==
    /\ handler[w].at = "finally"
    /\ worker_state' = [worker_state EXCEPT ![w].busy = FALSE,
                                            ![w].current_request = None]
    /\ handler' = [handler EXCEPT ![w] = NoHandler]
    /\ LET j == worker_state[w].current_request IN
       resp' = IF j \in Jobs /\ pc[j] = "wait"
               THEN [resp EXCEPT ![j] = handler[w].out]
               ELSE resp
    /\ UNCHANGED <<readerVars, balancerVars, up, ready, pc, worker, tmp, exc, result, probe, pre>>

\* The worker process dies: its state, and the request in it, go with it.
Crash(w) ==
    /\ up[w]
    /\ up' = [up EXCEPT ![w] = FALSE]
    /\ ready' = [ready EXCEPT ![w] = FALSE]
    /\ worker_state' = [worker_state EXCEPT ![w] = InitWorkerState]
    /\ handler' = [handler EXCEPT ![w] = NoHandler]
    /\ UNCHANGED <<readerVars, balancerVars, jobVars>>

\* The worker process is started: worker_state as at module load (lines
\* 55-61), and the pipeline loaded or not (lines 66-75).
Restart(w) ==
    /\ ~up[w]
    /\ up' = [up EXCEPT ![w] = TRUE]
    /\ \E r \in BOOLEAN : ready' = [ready EXCEPT ![w] = r]
    /\ UNCHANGED <<readerVars, balancerVars, worker_state, handler, jobVars>>

\* ------------------------------------------------------- specifications
Poller == PollProbe \/ PollWrite \/ PollClear \/ PollSleep

\* The wait loop of the main thread, before app.run.
Boot == BootCount \/ BootTimeout \/ BootProbe \/ BootWrite \/ BootClear

JobStep(j) ==
    \/ WriteTotal(j) \/ Select(j) \/ Mark(j) \/ Post(j) \/ PostForeign(j)
    \/ Receive(j) \/ Timeout(j) \/ ConnLost(j) \/ HandleResp(j)
    \/ WriteSucc(j) \/ ReadRpw(j) \/ WriteRpw(j) \/ ReadFailed(j)
    \/ WriteFailed(j) \/ Reprobe(j) \/ ReprobeWrite(j) \/ Respond(j)

WorkerStep(w) == WorkerRun(w) \/ WorkerRelease(w) \/ Crash(w) \/ Restart(w)

\* Flask runs threaded: calls, the poller and the workers all interleave.
Next ==
    \/ \E j \in Jobs : Call(j) \/ JobStep(j)
    \/ Poller
    \/ Boot
    \/ \E w \in Ids(workers) : WorkerStep(w)

Spec == Init /\ [][Next]_vars

\* The same system with the forward_request calls made one after another,
\* SeqCalls of them.
NextSeq ==
    \/ \E j \in Jobs : (NoCallInProgress /\ j <= SeqCalls /\ Call(j)) \/ JobStep(j)
    \/ Poller
    \/ Boot
    \/ \E w \in Ids(workers) : WorkerStep(w)

SpecSeq == Init /\ [][NextSeq]_vars

\* The balancer once it serves requests: the wait loop of the main thread is
\* over (or the module was imported and there was none).
InitServed == Init /\ boot = BootDone

\* Concurrent calls against worker processes that, once started, stay up and
\* answer with worker.py's own bodies (over connections that can time out or
\* break), during one round of the checker thread over the pool.
NextConc ==
    \/ \E j \in Jobs :
          \/ Call(j) \/ WriteTotal(j) \/ Select(j) \/ Mark(j) \/ Post(j)
          \/ Receive(j) \/ Timeout(j) \/ ConnLost(j) \/ HandleResp(j)
          \/ WriteSucc(j)
          \/ ReadRpw(j) \/ WriteRpw(j) \/ ReadFailed(j) \/ WriteFailed(j)
          \/ Reprobe(j) \/ ReprobeWrite(j) \/ Respond(j)
    \/ PollProbe \/ PollWrite \/ PollClear
    \/ \E w \in Ids(workers) : WorkerRun(w) \/ WorkerRelease(w) \/ Restart(w)

SpecConc == InitServed /\ [][NextConc]_vars

\* ----------------------------------------------------- mark specification
\* Concurrent calls while the checker thread makes a round over the pool: the
\* worker processes run with their pipeline and answer every call within its
\* timeout, and the registry is as the round before left it.
InitMark ==
    /\ workers = Pool(NUM_WORKERS)
    /\ up = [w \in Ids(workers) |-> TRUE]
    /\ ready = [w \in Ids(workers) |-> TRUE]
    /\ worker_state = [w \in Ids(workers) |-> InitWorkerState]
    /\ handler = [w \in Ids(workers) |-> NoHandler]
    /\ worker_status = [w \in Ids(workers) |-> ProbeRecord(StatusBody(w))]
    /\ stats = InitStats(workers)
    /\ incs = stats
    /\ pre = stats
    /\ poll = PollStart
    /\ boot = BootDone
    /\ pc = [j \in Jobs |-> "idle"]
    /\ worker = [j \in Jobs |-> None]
    /\ tmp = [j \in Jobs |-> 0]
    /\ exc = [j \in Jobs |-> "none"]
    /\ resp = [j \in Jobs |-> NoResp]
    /\ result = [j \in Jobs |-> NoResp]
    /\ probe = [j \in Jobs |-> NoResp]
    /\ scan = [j \in Jobs |-> NoScan]
    /\ seen = [j \in Jobs |-> NoSeen]
    /\ hc = NoHealthCall
    /\ hseen = {}

NextMark ==
    \/ \E j \in Jobs :
          \/ Call(j) \/ WriteTotal(j) \/ Select(j) \/ Mark(j) \/ Post(j)
          \/ Receive(j) \/ HandleResp(j) \/ WriteSucc(j)
          \/ ReadRpw(j) \/ WriteRpw(j) \/ ReadFailed(j) \/ WriteFailed(j)
          \/ Reprobe(j) \/ ReprobeWrite(j) \/ Respond(j)
    \/ PollProbe \/ PollWrite \/ PollClear
    \/ \E w \in Ids(workers) : WorkerRun(w) \/ WorkerRelease(w)

SpecMark == InitMark /\ [][NextMark]_vars

\* ------------------------------------------------ scheduler specification
\* One forward_request call at its selection, over every registry and every
\* requests_per_worker table of a pool of 1..SchedWorkers workers: the call
\* selects, marks and posts. The worker processes run, ready, and busy where
\* the registry says so.
Sum(f, S) ==
    LET RECURSIVE Acc(_)
        Acc(T) == IF T = {} THEN 0
                  ELSE LET x == CHOOSE x \in T : TRUE IN f[x] + Acc(T \ {x})
    IN Acc(S)

InitSched ==
    /\ \E n \in 1..SchedWorkers : workers = Pool(n)
    /\ worker_status \in [Ids(workers) -> [healthy : BOOLEAN, busy : BOOLEAN]]
    /\ \E rpw \in [Ids(workers) -> 0..SchedMaxCount] :
          stats = [total_requests |-> Sum(rpw, Ids(workers)) + 1,
                   successful_requests |-> Sum(rpw, Ids(workers)),
                   failed_requests |-> 0,
                   requests_per_worker |-> rpw]
    /\ incs = stats
    /\ pre = [stats EXCEPT !.total_requests = @ - 1]
    /\ poll = PollAsleep
    /\ boot = BootDone
    /\ up = [w \in Ids(workers) |-> TRUE]
    /\ ready = [w \in Ids(workers) |-> TRUE]
    /\ worker_state = [w \in Ids(workers) |->
                         [InitWorkerState EXCEPT !.busy = worker_status[w].busy]]
    /\ handler = [w \in Ids(workers) |-> NoHandler]
    /\ pc = [j \in Jobs |-> IF j = 1 THEN "select" ELSE "idle"]
    /\ worker = [j \in Jobs |-> None]
    /\ tmp = [j \in Jobs |-> 0]
    /\ exc = [j \in Jobs |-> "none"]
    /\ resp = [j \in Jobs |-> NoResp]
    /\ result = [j \in Jobs |-> NoResp]
    /\ probe = [j \in Jobs |-> NoResp]
    /\ scan = [j \in Jobs |-> NoScan]
    /\ seen = [j \in Jobs |-> NoSeen]
    /\ hc = NoHealthCall
    /\ hseen = {}

NextSched == \E j \in Jobs : Select(j) \/ Mark(j) \/ Post(j)

SpecSched == InitSched /\ [][NextSched]_vars

\* The same, with every call at its selection at once, and nothing but the
\* calls writing the registry.
InitRace ==
    /\ \E n \in 1..RaceWorkers : workers = Pool(n)
    /\ worker_status \in [Ids(workers) -> [healthy : BOOLEAN, busy : BOOLEAN]]
    /\ \E rpw \in [Ids(workers) -> 0..RaceMaxCount] :
          stats = [total_requests |-> Sum(rpw, Ids(workers)) + NumJobs,
                   successful_requests |-> Sum(rpw, Ids(workers)),
                   failed_requests |-> 0,
                   requests_per_worker |-> rpw]
    /\ incs = stats
    /\ pre = [stats EXCEPT !.total_requests = @ - NumJobs]
    /\ poll = PollAsleep
    /\ boot = BootDone
    /\ up = [w \in Ids(workers) |-> TRUE]
    /\ ready = [w \in Ids(workers) |-> TRUE]
    /\ worker_state = [w \in Ids(workers) |->
                         [InitWorkerState EXCEPT !.busy = worker_status[w].busy]]
    /\ handler = [w \in Ids(workers) |-> NoHandler]
    /\ pc = [j \in Jobs |-> "select"]
    /\ worker = [j \in Jobs |-> None]
    /\ tmp = [j \in Jobs |-> 0]
    /\ exc = [j \in Jobs |-> "none"]
    /\ resp = [j \in Jobs |-> NoResp]
    /\ result = [j \in Jobs |-> NoResp]
    /\ probe = [j \in Jobs |-> NoResp]
    /\ scan = [j \in Jobs |-> NoScan]
    /\ seen = [j \in Jobs |-> NoSeen]
    /\ hc = NoHealthCall
    /\ hseen = {}

SpecRace == InitRace /\ [][NextSched]_vars

\* ------------------------------------------------- poller specification
\* The checker thread, and the main thread's wait loop next to it, over pools
\* of 1..SchedWorkers workers, every registry the balancer can hold and
\* worker processes that stay as they are:
\* down, up without a pipeline, or up, ready and idle. A probe of a worker
\* that is down can raise; a running worker answers within the timeout.
InitPoll ==
    /\ \E n \in 1..SchedWorkers : workers = Pool(n)
    /\ worker_status \in [Ids(workers) ->
           {InitStatus} \cup [healthy : BOOLEAN, busy : BOOLEAN, requests_processed : {0}]]
    /\ stats = InitStats(workers)
    /\ incs = stats
    /\ pre = stats
    /\ poll = PollStart
    /\ boot \in {BootDone, BootStart}
    /\ up \in [Ids(workers) -> BOOLEAN]
    /\ ready \in [Ids(workers) -> BOOLEAN]
    /\ \A w \in Ids(workers) : ready[w] => up[w]
    /\ worker_state = [w \in Ids(workers) |-> InitWorkerState]
    /\ handler = [w \in Ids(workers) |-> NoHandler]
    /\ pc = [j \in Jobs |-> "idle"]
    /\ worker = [j \in Jobs |-> None]
    /\ tmp = [j \in Jobs |-> 0]
    /\ exc = [j \in Jobs |-> "none"]
    /\ resp = [j \in Jobs |-> NoResp]
    /\ result = [j \in Jobs |-> NoResp]
    /\ probe = [j \in Jobs |-> NoResp]
    /\ scan = [j \in Jobs |-> NoScan]
    /\ seen = [j \in Jobs |-> NoSeen]
    /\ hc = NoHealthCall
    /\ hseen = {}

NextPoll ==
    \/ PollAnswered
    \/ (~up[workers[poll.i]] /\ PollRaised)
    \/ PollWrite \/ PollClear \/ PollSleep
    \/ BootCount \/ BootTimeout
    \/ BootAnswered
    \/ (~up[workers[boot.i]] /\ BootRaised)
    \/ BootWrite \/ BootClear

SpecPoll == InitPoll /\ [][NextPoll]_vars

\* ------------------------------------------------ readers specifications
\* No call is inside get_best_worker.
NoScanInProgress == \A k \in Jobs : pc[k] \notin Scanning

\* The selection against the writers of the registry: calls that select read
\* by read (one selection at a time) and then mark, the poller, and worker
\* processes that come and go.
NextSelect ==
    \/ \E j \in Jobs :
          \/ Call(j) \/ WriteTotal(j) \/ (NoScanInProgress /\ ScanStart(j))
          \/ ScanAvailable(j) \/ ScanBusy(j) \/ ScanHealthy(j) \/ ScanMin(j)
          \/ Mark(j)
    \/ Poller
    \/ Boot
    \/ \E w \in Ids(workers) : Crash(w) \/ Restart(w)

SpecSelect == Init /\ [][NextSelect]_vars

\* GET /health requests against the same writers.
NextHealth ==
    \/ HealthStart \/ HealthRead \/ HealthReturn
    \/ Poller
    \/ Boot
    \/ \E w \in Ids(workers) : Crash(w) \/ Restart(w)

SpecHealth == Init /\ [][NextHealth]_vars

\* ------------------------------------------- balancer /predict, rejections
\* The two 400 answers of the balancer's predict().
BadRequestResults ==
    {[status |-> 400, body |-> ErrBody("No 'image' in request")],
     [status |-> 400, body |-> ErrBody("JSON required")]}

\* The answers of predict() to a request it does not hand to forward_request:
\* the two 400 answers, and the 500 of its except branch (lines 214-217) for
\* a JSON body that is not an object, on which the test of line 206 or the
\* subscript of line 209 raises.
RejectResults == BadRequestResults \cup {ErrorResult}

\* Mutant of Reject: the rejected request is counted in total_requests.
RejectCounted(j) ==
    /\ pc[j] = "idle"
    /\ \A k \in Jobs : k < j => pc[k] # "idle"
    /\ boot.at = "done"
    /\ \E r \in RejectResults : result' = [result EXCEPT ![j] = r]
    /\ stats' = [stats EXCEPT !.total_requests = @ + 1]
    /\ pc' = [pc EXCEPT ![j] = "rejected"]
    /\ UNCHANGED <<readerVars, workers, worker_status, incs, poll, boot, workerVars,
                   worker, tmp, exc, resp, probe, pre>>

\* balancer.py predict(), lines 202-217: the body of request j is not JSON,
\* is a JSON object without an image field, or is JSON and not an object;
\* forward_request is not called.
Reject(j) ==
    /\ pc[j] = "idle"
    /\ \A k \in Jobs : k < j => pc[k] # "idle"
    /\ boot.at = "done"
    /\ \E r \in RejectResults : result' = [result EXCEPT ![j] = r]
    /\ pc' = [pc EXCEPT ![j] = "rejected"]
    /\ UNCHANGED <<readerVars, balancerVars, workerVars, worker, tmp, exc, resp, probe, pre>>

\* The answer is sent to the client.
RejectReturn(j) ==
    /\ pc[j] = "rejected"
    /\ pc' = [pc EXCEPT ![j] = "returned"]
    /\ result' = [result EXCEPT ![j] = NoResp]
    /\ UNCHANGED <<readerVars, balancerVars, workerVars, worker, tmp, exc, resp, probe, pre>>

\* Requests one at a time, as in NextSeq, each either rejected by predict()
\* or (SeqCalls of them) handed to forward_request.
NextFrame ==
    \/ \E j \in Jobs : (NoCallInProgress /\ j <= SeqCalls /\ Call(j)) \/ JobStep(j)
    \/ \E j \in Jobs : (NoCallInProgress /\ Reject(j)) \/ RejectReturn(j)
    \/ Poller
    \/ Boot
    \/ \E w \in Ids(workers) : WorkerStep(w)

SpecFrame == Init /\ [][NextFrame]_vars

\* ------------------------------------------------- worker specification
\* The workers' /predict handler under the submissions of the balancer's
\* calls and of direct clients. The worker processes run, with or without
\* their pipeline, and the registry is as one poller cycle leaves it.
InitWorker ==
    /\ workers = Pool(NUM_WORKERS)
    /\ up = [w \in Ids(workers) |-> TRUE]
    /\ ready \in [Ids(workers) -> BOOLEAN]
    /\ worker_state = [w \in Ids(workers) |-> InitWorkerState]
    /\ handler = [w \in Ids(workers) |-> NoHandler]
    /\ worker_status = [w \in Ids(workers) |-> ProbeRecord(StatusBody(w))]
    /\ stats = InitStats(workers)
    /\ incs = stats
    /\ pre = stats
    /\ poll = PollAsleep
    /\ boot = BootDone
    /\ pc = [j \in Jobs |-> "idle"]
    /\ worker = [j \in Jobs |-> None]
    /\ tmp = [j \in Jobs |-> 0]
    /\ exc = [j \in Jobs |-> "none"]
    /\ resp = [j \in Jobs |-> NoResp]
    /\ result = [j \in Jobs |-> NoResp]
    /\ probe = [j \in Jobs |-> NoResp]
    /\ scan = [j \in Jobs |-> NoScan]
    /\ seen = [j \in Jobs |-> NoSeen]
    /\ hc = NoHealthCall
    /\ hseen = {}

NextWorker ==
    \/ \E j \in Jobs :
          \/ Call(j) \/ WriteTotal(j) \/ Select(j) \/ Mark(j) \/ Post(j)
          \/ Timeout(j)
    \/ \E w \in Ids(workers) :
          \/ DirectPost(w) \/ WorkerNoImage(w) \/ WorkerRun(w)
          \/ WorkerRelease(w)

SpecWorker == InitWorker /\ [][NextWorker]_vars

\* -------------------------------------------- poller liveness specification
\* The checker thread next to workers that stop and start. The thread is a
\* daemon thread of its own: each probe ends (requests.get has timeout=3) and
\* each time.sleep(HEALTH_CHECK_INTERVAL) ends, so every poller step that is
\* possible is eventually taken. Nothing is assumed of the workers.
NextPollLive ==
    \/ Poller
    \/ Boot
    \/ \E w \in Ids(workers) : Crash(w) \/ Restart(w)

SpecPollLive ==
    /\ Init
    /\ [][NextPollLive]_vars
    /\ WF_vars(PollProbe) /\ WF_vars(PollWrite)
    /\ WF_vars(PollClear) /\ WF_vars(PollSleep)


\* ----------------------------------------------------------------- claims
\* The registry and the counters as the claims speak of them.
PosOf(w) == CHOOSE i \in 1..Len(workers) : workers[i] = w
IdleHealthy == {w \in Ids(workers) : worker_status[w].healthy /\ ~worker_status[w].busy}
HealthySet == {w \in Ids(workers) : worker_status[w].healthy}
Count(w) == stats.requests_per_worker[w]

\* w is in S, has the smallest count of S and is the first such in pool order.
LeastFirst(S, w) ==
    /\ w \in S
    /\ \A v \in S : Count(w) < Count(v) \/ (Count(w) = Count(v) /\ PosOf(w) <= PosOf(v))

\* The positions of a call at line 99, from the call of get_best_worker to
\* its return.
Selecting == Scanning \cup {"select"}

\* C1: whenever some worker is recorded healthy and not busy, the worker a
\* call has just selected is healthy and not busy, has the smallest
\* requests_per_worker count among the healthy idle workers and is the first
\* of those in pool order (checked in the state right after the selection,
\* before the busy mark, with nothing written while get_best_worker ran).
C1_IdleLeastFirst ==
    \A j \in Jobs :
        (pc[j] \in {"mark", "r_fail"} /\ IdleHealthy # {}) => LeastFirst(IdleHealthy, worker[j])

\* C1 witness: the spec's example. A healthy idle with count 3, B healthy idle
\* with count 1, C unhealthy (with the smallest count, 0): B is selected.
C1_Witness ==
    /\ Len(workers) = 3
    /\ pc[1] = "mark"
    /\ worker_status[1] = [healthy |-> TRUE, busy |-> FALSE]
    /\ worker_status[2] = [healthy |-> TRUE, busy |-> FALSE]
    /\ ~worker_status[3].healthy
    /\ Count(1) = 3 /\ Count(2) = 1 /\ Count(3) = 0
    /\ worker[1] = 2

\* C2: when no worker is healthy and idle but some worker is healthy, the
\* selection returns the healthy worker with the smallest count (first in pool
\* order on ties), the call goes on to mark it and to post the job to it, and
\* what it then waits for is that worker's answer (the job taken in, or the
\* worker's own busy rejection), not a 503 of its own.
C2_DegradeToBusy ==
    [][\A j \in Jobs :
          /\ (pc[j] \in Selecting /\ pc'[j] \notin Selecting
                /\ IdleHealthy = {} /\ HealthySet # {})
                => (LeastFirst(HealthySet, worker'[j]) /\ pc'[j] = "mark")
          /\ (pc[j] = "mark" /\ pc'[j] # "mark")
                => (pc'[j] = "post" /\ worker'[j] = worker[j] /\ worker[j] \in HealthySet)
          /\ (pc[j] = "post" /\ pc'[j] # "post")
                => /\ result'[j] = NoResp
                   /\ pc'[j] = "wait"
                   /\ \/ worker_state'[worker[j]].current_request = j
                      \/ /\ worker_state[worker[j]].busy
                         /\ resp'[j] = [status |-> 503, body |-> ErrBody("Worker ocupado")]
      ]_vars

\* C2 witness: the spec's example. A and B both healthy and busy, A with
\* count 3 and B with count 1: B was selected and sent the job, which B
\* rejected as busy.
C2_Witness ==
    /\ Len(workers) = 2
    /\ worker_status[1] = [healthy |-> TRUE, busy |-> TRUE]
    /\ worker_status[2] = [healthy |-> TRUE, busy |-> TRUE]
    /\ Count(1) = 3 /\ Count(2) = 1
    /\ worker[1] = 2
    /\ pc[1] = "wait"
    /\ resp[1] = [status |-> 503, body |-> ErrBody("Worker ocupado")]

\* What one call adds to the counters it found when it began.
OneFailure(st) == [st EXCEPT !.total_requests = @ + 1, !.failed_requests = @ + 1]
OneSuccess(st, w) ==
    [st EXCEPT !.total_requests = @ + 1, !.successful_requests = @ + 1,
               !.requests_per_worker[w] = @ + 1]

\* C3: when every worker is recorded unhealthy (in every state of the
\* registry there has been since the selection began) the selection returns
\* None; a call with no worker touches no worker process and no recorded
\* worker state; and it returns 503 with ok = false, having raised
\* total_requests and failed_requests by one each and no other counter.
C3_NoCapacity ==
    [][\A j \in Jobs :
          /\ (pc[j] \in Scanning /\ pc'[j] \notin Scanning /\ seen[j].best = {None})
                => (worker'[j] = None /\ pc'[j] = "r_fail")
          /\ (pc[j] \in Selecting \cup {"r_fail", "w_fail"} /\ pc'[j] # pc[j]
                /\ worker'[j] = None)
                => (worker_status' = worker_status /\ worker_state' = worker_state
                    /\ handler' = handler)
          /\ (pc[j] # "done" /\ pc'[j] = "done" /\ worker[j] = None)
                => /\ result'[j].status = 503
                   /\ result'[j].body.ok = FALSE
                   /\ stats' = OneFailure(pre)
      ]_vars

\* C3 witness: a call has returned 503 for want of a healthy worker, while a
\* worker process is in fact up and ready (but not yet recorded healthy).
C3_Witness ==
    \E j \in Jobs :
        /\ pc[j] = "done" /\ worker[j] = None
        /\ result[j].status = 503
        /\ stats.failed_requests = pre.failed_requests + 1
        /\ \E w \in Ids(workers) : up[w] /\ ready[w]

\* C4: a call that returns a success result carries routed_to equal to the
\* balancer's id of the worker it selected and posted to, next to the answer
\* read from that worker's URL; when the worker process answered, the answer
\* is that process's own (ok = true, its worker_id the name that process
\* gives itself); the call has raised total_requests, successful_requests
\* and requests_per_worker[routed_to] by one each and nothing else.
C4_SuccessAccounting ==
    \A j \in Jobs :
        (pc[j] = "done" /\ result[j].status = 200) =>
            /\ resp[j].status = 200
            /\ result[j].body = ("routed_to" :> worker[j]) @@ resp[j].body
            /\ result[j].body.routed_to = worker[j]
            /\ "worker_id" \in DOMAIN result[j].body
                  => /\ result[j].body.ok = TRUE
                     /\ result[j].body.worker_id = WorkerId(result[j].body.routed_to)
            /\ stats = OneSuccess(pre, result[j].body.routed_to)

\* C4 witness: a success routed to the second worker of the pool (the first
\* was not available): the answer names the process at the second port, and
\* only the second worker's count has grown.
C4_Witness ==
    \E j \in Jobs :
        /\ pc[j] = "done" /\ result[j].status = 200
        /\ result[j].body.routed_to = 2
        /\ "worker_id" \in DOMAIN result[j].body
        /\ result[j].body.worker_id = BASE_WORKER_PORT + 1
        /\ stats.total_requests = 1 /\ stats.successful_requests = 1
        /\ stats.requests_per_worker = [w \in Ids(workers) |-> IF w = 2 THEN 1 ELSE 0]

\* C5: a call whose wait for the worker timed out returns 504 with ok = false
\* and has raised total_requests and failed_requests by one each and nothing
\* else; this stays so while the worker goes on and finishes the job.
C5_Timeout ==
    \A j \in Jobs :
        (pc[j] = "done" /\ exc[j] = "timeout") =>
            /\ result[j].status = 504
            /\ result[j].body.ok = FALSE
            /\ stats = OneFailure(pre)

\* C5 witness: the only call made so far has returned 504, and the worker has
\* since finished that job with success: its own counter is 1, no balancer
\* success was counted.
C5_Witness ==
    \E j \in Jobs :
        /\ pc[j] = "done" /\ exc[j] = "timeout" /\ result[j].status = 504
        /\ stats.total_requests = 1
        /\ worker_state[worker[j]].requests_processed = 1
        /\ ~worker_state[worker[j]].busy
        /\ stats.successful_requests = 0

\* C6 (as claimed): a call whose worker answered with a status other than 200
\* returns that body and status unchanged and has raised total_requests and
\* failed_requests by one each and nothing else.
C6_WorkerFailurePassThrough ==
    \A j \in Jobs :
        (pc[j] = "done" /\ resp[j] # NoResp /\ resp[j].status # 200) =>
            /\ result[j] = resp[j]
            /\ stats = OneFailure(pre)

\* C7 (as claimed): once all calls have returned, total_requests has grown by
\* the number of calls and every counter by the number of += 1 executed on it.
C7_NoLostUpdates ==
    (\A j \in Jobs : pc[j] = "returned") =>
        (stats.total_requests = NumJobs /\ stats = incs)

\* C8 (as claimed): whatever the outcome of the worker call, the pair a call
\* returns has a status and a body with an ok flag, false when an exception
\* was handled; and the post-job probe, whatever comes of it, changes neither
\* the pair nor the exception handled and ends the call.
C8_ErrorContainment ==
    [][\A j \in Jobs :
          /\ (pc'[j] = "done")
                => /\ "ok" \in DOMAIN result'[j].body
                   /\ result'[j].body.ok \in BOOLEAN
                   /\ exc'[j] # "none" => ~result'[j].body.ok
          /\ (pc[j] \in {"reprobe", "reprobe_w"} /\ pc'[j] # pc[j])
                => /\ pc'[j] = "done" \/ (pc[j] = "reprobe" /\ pc'[j] = "reprobe_w")
                   /\ result'[j] = result[j]
                   /\ exc'[j] = exc[j]
      ]_vars

\* C8 (amended): every call ends with a pair of a status and a JSON body. The
\* bodies forward_request makes itself (no worker selected, or an exception
\* handled) have ok = false; an answer that was read and parsed is returned
\* as it came (with routed_to added to a 200 answer), so it has an ok flag
\* if and only if the answer had one; and the post-job probe, whatever comes
\* of it, changes neither the pair nor the exception handled and ends the
\* call.
C8_Containment ==
    [][\A j \in Jobs :
          /\ (pc'[j] = "done")
                => /\ result'[j].body # Garbage
                   /\ (worker'[j] = None \/ exc'[j] # "none")
                         => (result'[j].body.ok = FALSE
                             /\ result'[j].status \in {500, 503, 504})
                   /\ (worker'[j] # None /\ exc'[j] = "none")
                         => /\ result'[j].status = resp'[j].status
                            /\ \/ result'[j] = resp'[j]
                               \/ result'[j] = SuccessResult(resp'[j], worker'[j])
                            /\ "ok" \in DOMAIN result'[j].body
                                  <=> "ok" \in DOMAIN resp'[j].body
          /\ (pc[j] \in {"reprobe", "reprobe_w"} /\ pc'[j] # pc[j])
                => /\ pc'[j] = "done" \/ (pc[j] = "reprobe" /\ pc'[j] = "reprobe_w")
                   /\ result'[j] = result[j]
                   /\ exc'[j] = exc[j]
      ]_vars

\* C8 witness: a call has returned the 502 of a gateway as it came, a JSON
\* object without an ok flag, and its post-job probe failed (the worker is
\* down, the busy mark still there).
C8_Witness ==
    \E j \in Jobs :
        /\ pc[j] = "done" /\ exc[j] = "none"
        /\ result[j] = [status |-> 502, body |-> BadGateway]
        /\ "ok" \notin DOMAIN result[j].body
        /\ ~up[worker[j]] /\ worker_status[worker[j]].busy

\* C9 (as claimed): 503 only when no worker was selected, 504 only for a
\* timeout, 500 only for a transport failure.
C9_StatusIdentifiesOutcome ==
    \A j \in Jobs :
        pc[j] = "done" =>
            /\ result[j].status = 503 => worker[j] = None
            /\ result[j].status = 504 => exc[j] = "timeout"
            /\ result[j].status = 500 => (exc[j] = "error" /\ resp[j] = NoResp)

\* C9 (amended): forward_request's own answers have one status each: 503
\* when no worker was selected, 504 when the worker call timed out, 500 when
\* another exception was handled (transport failure, answer that does not
\* parse). An answer that was read and parsed is passed through with the
\* status it came with, whatever that is: so a 503, a 504 or a 500 is either
\* forward_request's own, for that outcome, or the status of the answer
\* passed through, and every other status is the answer's.
C9_StatusOutcome ==
    \A j \in Jobs :
        pc[j] = "done" =>
            /\ worker[j] = None => (result[j].status = 503 /\ exc[j] = "none")
            /\ exc[j] = "timeout" => result[j].status = 504
            /\ exc[j] = "error" => result[j].status = 500
            /\ (worker[j] # None /\ exc[j] = "none")
                  => /\ resp[j] # NoResp
                     /\ result[j].status = resp[j].status
                     /\ result[j].status # 200 => result[j] = resp[j]
            /\ result[j].status = 503 =>
                  \/ worker[j] = None
                  \/ exc[j] = "none" /\ resp[j].status = 503
            /\ result[j].status = 504 =>
                  \/ exc[j] = "timeout"
                  \/ exc[j] = "none" /\ resp[j].status = 504
            /\ result[j].status = 500 =>
                  \/ exc[j] = "error"
                  \/ exc[j] = "none" /\ resp[j].status = 500
            /\ result[j].status \notin {503, 504, 500} =>
                  (worker[j] # None /\ exc[j] = "none")

\* C9 witness: a worker was selected and the call returned 503 all the same:
\* the worker's own 503 (it runs without its pipeline), passed through and
\* counted as a failure.
C9_Witness ==
    \E j \in Jobs :
        /\ pc[j] = "done" /\ worker[j] # None /\ exc[j] = "none"
        /\ resp[j] = [status |-> 503, body |-> ErrBody("OCR no disponible")]
        /\ up[worker[j]] /\ ~ready[worker[j]]
        /\ result[j] = resp[j]
        /\ stats = OneFailure(pre)

\* C10 (as claimed): when a probe of a worker that does not answer completes,
\* periodic (the except branch's last write, the write after an answer other
\* than 200) or post-job, the worker's recorded busy flag is false.
C10_UnreachableNeverBusy ==
    [][/\ \A j \in Jobs :
            (pc[j] = "reprobe" /\ pc'[j] = "done" /\ ~up[worker[j]])
               => ~worker_status'[worker[j]].busy
       /\ (/\ poll' # poll
           /\ poll.at = "clear" \/ (poll.at = "write" /\ poll.resp.status # 200)
           /\ ~up[workers[poll.i]])
               => ~worker_status'[workers[poll.i]].busy
      ]_vars

\* The calls whose submission is past worker w's busy gate and not yet
\* answered.
PastGate(w) == {j \in Jobs : pc[j] = "wait" /\ worker[j] = w /\ resp[j] = NoResp}

\* C11: at every step and for every worker, at most one submission is past
\* the busy gate (the one worker_state names as current_request, with busy
\* set for as long as its handler runs); and a submission that reaches a
\* running worker whose busy flag is set is answered 503 with ok = false,
\* while the worker's state and the handler of the request in flight stay as
\* they are.
C11_SingleFlight ==
    [][/\ \A w \in Ids(workers) :
            /\ Cardinality(PastGate(w)') <= 1
            /\ PastGate(w)' \subseteq {worker_state'[w].current_request}
            /\ (handler'[w].at # "none") <=> worker_state'[w].busy
            /\ (handler'[w].at # "none") <=> (worker_state'[w].current_request # None)
       /\ \A j \in Jobs :
            (pc[j] = "post" /\ pc'[j] # "post" /\ up[worker[j]]
               /\ worker_state[worker[j]].busy)
              => /\ pc'[j] = "wait"
                 /\ resp'[j].status = 503
                 /\ resp'[j].body.ok = FALSE
                 /\ worker_state' = worker_state
                 /\ handler' = handler
      ]_vars

\* C11 witness: two calls submitted to the same worker; the first is past the
\* gate and being processed, the second was answered 503 "Worker ocupado".
C11_Witness ==
    \E w \in Ids(workers) :
        /\ PastGate(w) = {1}
        /\ worker_state[w].busy /\ handler[w].at = "run"
        /\ pc[2] = "resp" /\ worker[2] = w
        /\ resp[2] = [status |-> 503, body |-> ErrBody("Worker ocupado")]

\* C12: for every pool size, once the poller has completed a cycle (it is at
\* its sleep) in which every probe was answered, over workers that are all
\* reachable, ready and idle, the cluster status reports healthy_workers and
\* total_workers both equal to the pool size, whatever the registry held
\* before.
C12_AllHealthyAfterCycle ==
    (/\ poll.at = "sleep"
     /\ \A w \in Ids(workers) : up[w] /\ ready[w] /\ ~worker_state[w].busy)
      => /\ Len(workers) >= 1
         /\ get_cluster_status(workers, worker_status, stats).healthy_workers = Len(workers)
         /\ get_cluster_status(workers, worker_status, stats).total_workers = Len(workers)

\* C12 witness: a pool of three reachable, ready, idle workers after a cycle,
\* all three reported healthy.
C12_Witness ==
    /\ Len(workers) = 3
    /\ poll.at = "sleep"
    /\ \A w \in Ids(workers) : up[w] /\ ready[w] /\ ~worker_state[w].busy
    /\ get_cluster_status(workers, worker_status, stats).healthy_workers = 3
    /\ get_cluster_status(workers, worker_status, stats).total_workers = 3

\* C13 (as claimed): the answer of a /health request is that of some moment
\* of the call: for the healthy count n of some registry state there has
\* been since the request began, status is "healthy" exactly when n > 0,
\* healthy_workers is n, and total_workers is the pool size.
C13_HealthReport ==
    hc.at = "done" =>
        /\ HealthAnswer.total_workers = NUM_WORKERS
        /\ \E n \in hseen :
              /\ HealthAnswer.status = "healthy" <=> n > 0
              /\ HealthAnswer.healthy_workers = n

\* C14: a call reaches its selection, its busy mark and its submission only
\* on the way in (from the start of the call, never from a later position),
\* so it submits at most once; the worker it selected stays the same until
\* the call has returned; and a call whose submission failed (exception, or
\* an answer other than 200) returns that failure: the answer as it came, or
\* after an exception ok = false, with a status other than 200.
C14_NoRetry ==
    [][\A j \in Jobs :
          /\ (pc'[j] = "idle") => (pc[j] = "idle")
          /\ (pc'[j] = "w_total" /\ pc[j] # "w_total") => (pc[j] = "idle")
          /\ (pc'[j] = "select" /\ pc[j] # "select") => (pc[j] = "w_total")
          /\ (pc'[j] \in Scanning /\ pc[j] \notin Scanning) => (pc[j] = "select")
          /\ (pc'[j] = "mark" /\ pc[j] # "mark") => (pc[j] \in Scanning)
          /\ (pc'[j] = "post" /\ pc[j] # "post") => (pc[j] = "mark")
          /\ (pc'[j] = "wait" /\ pc[j] # "wait") => (pc[j] = "post")
          /\ (pc'[j] = "resp" /\ pc[j] # "resp") => (pc[j] = "wait")
          /\ (pc[j] \notin Scanning \cup {"done"}) => (worker'[j] = worker[j])
          /\ (pc'[j] = "done" /\ pc[j] # "done"
                /\ (exc'[j] # "none" \/ (resp'[j] # NoResp /\ resp'[j].status # 200)))
                => /\ result'[j].status # 200
                   /\ exc'[j] = "none" => result'[j] = resp'[j]
                   /\ exc'[j] # "none" => result'[j].body.ok = FALSE
      ]_vars

\* C14 witness: the only call made so far has returned a timeout or transport
\* failure from its worker, while the other worker, recorded healthy and idle
\* and in fact up, ready and idle, has never been sent anything.
C14_Witness ==
    /\ pc[1] = "done" /\ pc[2] = "idle"
    /\ exc[1] \in {"timeout", "error"}
    /\ result[1].status \in {500, 504}
    /\ \E v \in Ids(workers) \ {worker[1]} :
          /\ worker_status[v].healthy /\ ~worker_status[v].busy
          /\ up[v] /\ ready[v] /\ worker_state[v] = InitWorkerState
          /\ handler[v] = NoHandler

\* C15 (as claimed): when the poller's iteration for a worker ends after a
\* failed probe (the exception branch's last write, or the write after an
\* answer with a status other than 200), the worker is recorded with
\* healthy = false and busy = false.
C15_ProbeFailureClears ==
    [][(/\ poll' # poll
        /\ poll.at = "clear" \/ (poll.at = "write" /\ poll.resp.status # 200))
         => /\ worker_status'[workers[poll.i]].healthy = FALSE
            /\ worker_status'[workers[poll.i]].busy = FALSE
      ]_vars

\* C16 (as claimed): the worker (or None) a selection comes to is what the
\* selection policy gives on one of the states of the registry and the counts
\* there have been since the selection began; in particular it is None only
\* if one of those states had no worker recorded healthy.
C16_AtomicSelection ==
    [][\A j \in Jobs :
          (pc[j] \in Scanning /\ pc'[j] \notin Scanning) => worker'[j] \in seen[j].best
      ]_vars

\* C17: no step of the selection writes to the registry, and the selection
\* leaves the call at its busy mark; the mark is a later step that sets busy
\* on the selected worker whatever the registry says by then; and the call
\* then submits to that same worker. (The two calls that select the same idle
\* worker while another is idle are the witness.)
C17_CheckThenAct ==
    [][\A j \in Jobs :
          /\ (pc[j] \in Selecting /\ pc'[j] # pc[j])
                => /\ worker_status' = worker_status
                   /\ pc'[j] \in Scanning \cup {"r_fail", "mark"}
                   /\ pc'[j] = "r_fail" => worker'[j] = None
                   /\ pc'[j] = "mark" => worker'[j] \in Ids(workers)
          /\ (pc[j] = "mark" /\ pc'[j] # "mark")
                => /\ pc'[j] = "post"
                   /\ worker'[j] = worker[j]
                   /\ worker_status' = [worker_status EXCEPT ![worker[j]].busy = TRUE]
          /\ (pc[j] = "post" /\ pc'[j] # "post")
                => /\ worker'[j] = worker[j]
                   /\ pc'[j] = "wait"
                   /\ \/ worker_state'[worker[j]].current_request = j
                      \/ resp'[j].status = 503
      ]_vars

\* C17 witness: two calls have selected the same worker, recorded healthy and
\* idle, before either marked it, while another worker was recorded healthy
\* and idle all along (only the calls write the registry here, and they only
\* set busy); both have then submitted to that worker, which took the first
\* and rejected the second.
C17_Witness ==
    \E w \in Ids(workers) :
        /\ worker[1] = w /\ worker[2] = w
        /\ pc[1] = "wait" /\ pc[2] = "wait"
        /\ worker_state[w].current_request = 1
        /\ resp[2] = [status |-> 503, body |-> ErrBody("Worker ocupado")]
        /\ \E v \in Ids(workers) \ {w} :
              /\ worker_status[v].healthy /\ ~worker_status[v].busy
              /\ ~worker_state[v].busy

\* Call j holds a claim on worker w: it is between its busy mark of w and the
\* end of its post-job probe of w.
Holds(j, w) ==
    /\ worker[j] = w
    /\ pc[j] \in {"post", "wait", "resp", "w_succ", "r_rpw", "w_rpw", "r_fail",
                  "w_fail", "reprobe", "reprobe_w"}

Held(w) == \E j \in Jobs : Holds(j, w)

\* A thread of _check_all_workers (th its position before the step, thn
\* after it) writes the 200 answer it holds for worker w, which reports busy
\* as b.
WritesBusy(th, thn, w, b) ==
    /\ th.at = "write" /\ thn # th
    /\ workers[th.i] = w
    /\ th.resp.status = 200
    /\ Get(th.resp.body, "busy", FALSE) = b

\* C18 (as claimed): a worker that no call holds is recorded not busy.
C18_AdvisoryBusy ==
    \A w \in Ids(workers) : ~Held(w) => ~worker_status[w].busy

\* C18 (amended): a worker that no call holds can be recorded busy, in two
\* ways only. When the last hold on it ends (the post-job probe) the flag
\* stays true only if the probe wrote nothing (it raised, or was answered
\* with a status other than 200) or wrote an answer that reported busy (the
\* worker going on with a job whose call timed out); and while no call holds
\* it, the flag turns true only by the write of a periodic probe whose answer
\* reported busy.
C18_BusyWithoutHolder ==
    [][\A w \in Ids(workers) :
          /\ (Held(w) /\ ~Held(w)' /\ worker_status'[w].busy)
                => \E j \in Jobs :
                      /\ worker[j] = w /\ pc'[j] = "done"
                      /\ \/ pc[j] = "reprobe" /\ worker_status' = worker_status
                         \/ pc[j] = "reprobe_w" /\ Get(probe[j].body, "busy", FALSE)
          /\ (~Held(w) /\ ~Held(w)' /\ ~worker_status[w].busy /\ worker_status'[w].busy)
                => (WritesBusy(poll, poll', w, TRUE) \/ WritesBusy(boot, boot', w, TRUE))
      ]_vars

\* C18 witness: a call has timed out and finished its post-job probe, which
\* found the worker still at the job: no call holds the worker and it is
\* recorded busy.
C18_Witness ==
    \E j \in Jobs :
        /\ pc[j] = "done" /\ exc[j] = "timeout"
        /\ ~Held(worker[j])
        /\ worker_status[worker[j]].busy
        /\ up[worker[j]] /\ worker_state[worker[j]].busy

\* C19 (as claimed): a call that selected a worker returns only from its
\* post-job probe, which it reaches only from a counter's store; and when
\* the probe is over the worker is recorded busy only if the probe was
\* answered and reported busy.
C19_PostJobReprobe ==
    [][\A j \in Jobs :
          /\ (pc'[j] = "done" /\ pc[j] # "done" /\ worker[j] # None)
                => (pc[j] \in {"reprobe", "reprobe_w"})
          /\ (pc'[j] = "reprobe" /\ pc[j] # "reprobe")
                => (pc[j] \in {"w_fail", "w_rpw"} /\ stats' # stats)
          /\ (pc[j] \in {"reprobe", "reprobe_w"} /\ pc'[j] = "done"
                /\ worker_status'[worker[j]].busy)
                => (pc[j] = "reprobe_w" /\ Get(probe[j].body, "busy", FALSE))
      ]_vars

\* The JSON bodies a 200 answer of /status can carry: any of the three fields
\* missing.
StatusBodies ==
    {[k \in D |-> f[k]] :
        D \in SUBSET {"ready", "busy", "requests_processed"},
        f \in [ready : BOOLEAN, busy : BOOLEAN, requests_processed : 0..1]}

\* What a 200 answer with JSON body data reports, a missing field counting as
\* false or 0.
Reported(data) ==
    [healthy |-> ("ready" \in DOMAIN data /\ data.ready),
     busy |-> ("busy" \in DOMAIN data /\ data.busy),
     requests_processed |-> IF "requests_processed" \in DOMAIN data
                            THEN data.requests_processed ELSE 0]

\* What status() of worker process w reports.
Reports(w) ==
    [ready |-> ready[w], busy |-> worker_state[w].busy,
     requests_processed |-> worker_state[w].requests_processed]

\* C20: the 200 answer a probe (periodic or post-job) gets from a running
\* worker carries the worker's ready, busy and requests_processed; when a
\* probe writes a 200 answer, the worker's record becomes exactly healthy =
\* reported ready, busy = reported busy, requests_processed = reported count
\* (a missing field counting as false or 0), whatever it was before.
C20_SuccessfulProbe ==
    [][/\ \A j \in Jobs :
            /\ (pc[j] = "reprobe" /\ pc'[j] = "reprobe_w" /\ up[worker[j]])
                  => probe'[j] = [status |-> 200, body |-> Reports(worker[j])]
            /\ (pc[j] = "reprobe_w" /\ pc'[j] # "reprobe_w")
                  => worker_status'[worker[j]] = Reported(probe[j].body)
       /\ (poll.at = "probe" /\ poll'.at = "write" /\ up[workers[poll.i]])
              => poll'.resp = [status |-> 200, body |-> Reports(workers[poll.i])]
       /\ (poll.at = "write" /\ poll' # poll /\ poll.resp.status = 200)
              => worker_status'[workers[poll.i]] = Reported(poll.resp.body)
       /\ (boot.at = "write" /\ boot' # boot /\ boot.resp.status = 200)
              => worker_status'[workers[boot.i]] = Reported(boot.resp.body)
       /\ (poll.at = "write" /\ poll' # poll) => \A data \in StatusBodies :
              ProbeRecord(data) = Reported(data)
      ]_vars

\* C20 witness: a call was sent to a worker that is up without a pipeline
\* (recorded healthy from before) and rejected; its post-job probe has
\* replaced the busy mark and recorded the worker unhealthy and idle.
C20_Witness ==
    \E j \in Jobs :
        /\ pc[j] = "done"
        /\ result[j] = [status |-> 503, body |-> ErrBody("OCR no disponible")]
        /\ up[worker[j]] /\ ~ready[worker[j]]
        /\ worker_status[worker[j]] =
              [healthy |-> FALSE, busy |-> FALSE, requests_processed |-> 0]

\* ------------------------------------------------------------------ C21
\* C21: the poller loop never ends and no probe failure leaves it: the loop
\* is always at a GET, at the write after an answer, at the except branch or
\* asleep; every worker of the pool is probed infinitely often; and a probe of
\* a worker that is down is followed, in the same cycle, by the probe of the
\* next worker of the pool (by the sleep after the last one).
C21_PollerLiveness ==
    /\ [](poll.at \in {"probe", "write", "clear", "sleep"})
    /\ \A w \in Ids(Pool(NUM_WORKERS)) :
          []<><<PollProbe /\ workers[poll.i] = w>>_vars
    /\ \A i \in 1..NUM_WORKERS :
          (poll.at = "probe" /\ poll.i = i /\ ~up[workers[i]])
             ~> (IF i < NUM_WORKERS
                 THEN poll.at = "probe" /\ poll.i = i + 1
                 ELSE poll.at = "sleep")
    /\ [][(poll.at \in {"write", "clear"} /\ poll' # poll)
             => poll' = PollAdvance]_vars

\* C21 witness: the first worker of the pool was probed with success, stopped
\* and was probed again without success (the except branch has run); the same
\* cycle is now at the probe of the second worker, which is running.
C21_Witness ==
    /\ poll = [at |-> "probe", i |-> 2, resp |-> NoResp]
    /\ ~up[workers[1]]
    /\ worker_status[workers[1]] =
          [healthy |-> FALSE, busy |-> FALSE, requests_processed |-> 0]
    /\ up[workers[2]] /\ ready[workers[2]]

\* ------------------------------------------------------------------ C22
\* No probe of any worker has been answered 200 yet: the write of a 200
\* answer replaces the worker's record with one that has the key
\* requests_processed.
NoProbeSucceeded ==
    \A w \in Ids(workers) : "requests_processed" \notin DOMAIN worker_status[w]

\* A thread of _check_all_workers writes the 200 answer it holds for w.
Writes200(th, thn, w) ==
    th.at = "write" /\ thn # th /\ workers[th.i] = w /\ th.resp.status = 200

\* C22: at construction every worker is recorded healthy = false and
\* busy = false and every counter is 0; requests_per_worker always has exactly
\* one key per worker of the pool; healthy turns from false to true only in
\* the write of a probe (periodic or post-job) answered 200 by a worker that
\* reported ready; and a call that selects before any probe has succeeded
\* finds no worker and returns 503 with one failure counted.
C22_InitialState ==
    /\ worker_status = [w \in Ids(workers) |-> [healthy |-> FALSE, busy |-> FALSE]]
    /\ stats.total_requests = 0
    /\ stats.successful_requests = 0
    /\ stats.failed_requests = 0
    /\ stats.requests_per_worker = [w \in Ids(workers) |-> 0]
    /\ [](/\ DOMAIN stats.requests_per_worker = Ids(workers)
          /\ DOMAIN worker_status = Ids(workers)
          /\ Ids(workers) = 1..NUM_WORKERS)
    /\ [][\A w \in Ids(workers) :
            (~worker_status[w].healthy /\ worker_status'[w].healthy)
               => \/ Writes200(poll, poll', w) /\ poll.resp.body.ready
                  \/ Writes200(boot, boot', w) /\ boot.resp.body.ready
                  \/ \E j \in Jobs : /\ pc[j] = "reprobe_w" /\ pc'[j] = "done"
                                      /\ worker[j] = w
                                      /\ probe[j].body.ready]_vars
    /\ [][\A j \in Jobs :
            /\ (pc[j] \in Scanning /\ pc'[j] \notin Scanning /\ NoProbeSucceeded)
                  => worker'[j] = None
            /\ (pc[j] # "done" /\ pc'[j] = "done" /\ NoProbeSucceeded')
                  => /\ result'[j] = [status |-> 503,
                                      body |-> ErrBody("No hay workers disponibles")]
                     /\ stats' = OneFailure(pre)]_vars

\* C22 witness: a worker is running with its pipeline loaded but no probe has
\* reached any worker yet; the first call has been answered 503.
C22_Witness ==
    \E j \in Jobs :
        /\ pc[j] = "done"
        /\ NoProbeSucceeded
        /\ \E w \in Ids(workers) : up[w] /\ ready[w]
        /\ result[j].status = 503
        /\ stats.total_requests = 1 /\ stats.failed_requests = 1

\* ------------------------------------------------------------------ C23
\* C23: whenever no forward_request call is in progress, total_requests is the
\* sum of successful_requests and failed_requests, and successful_requests is
\* the sum of the requests_per_worker entries (each call has counted itself
\* once in total_requests and once in exactly one outcome counter).
C23_OneOutcomeCounter ==
    NoCallInProgress
       => /\ stats.total_requests
                = stats.successful_requests + stats.failed_requests
          /\ stats.successful_requests
                = Sum(stats.requests_per_worker, Ids(workers))

\* ------------------------------------------------------------------ C24
\* Call j has marked worker w busy and its submission to w has not returned.
Submitting(j, w) == worker[j] = w /\ pc[j] \in {"post", "wait"}

\* C24 (as claimed): a call j2 whose selection began while the submission of
\* j1 to w was out, and ends while it still is, with another worker recorded
\* healthy and idle all the while, does not select w.
C24_BusyMarkHonoured ==
    [][\A j1, j2 \in Jobs : \A w \in Ids(workers) :
          (/\ j1 # j2 /\ j1 \in seen[j2].out /\ Submitting(j1, w)
           /\ seen[j2].idle \ {w} # {}
           /\ pc[j2] \in Scanning /\ pc'[j2] \notin Scanning)
             => worker'[j2] # w
      ]_vars

\* C24 (amended): the same holds as long as w was recorded busy all the while
\* too; and while the submission is out the mark is taken back only by a
\* probe of w: the except branch of a periodic probe, or the write of a 200
\* answer that reported w not busy (by the poller, or by the post-job probe
\* of another call that had selected w too).
C24_BusyMarkWhileRecorded ==
    [][\A j1, j2 \in Jobs : \A w \in Ids(workers) :
          /\ (/\ j1 # j2 /\ j1 \in seen[j2].out /\ Submitting(j1, w)
              /\ seen[j2].idle \ {w} # {}
              /\ w \in seen[j2].busy
              /\ pc[j2] \in Scanning /\ pc'[j2] \notin Scanning)
                => worker'[j2] # w
          /\ (/\ Submitting(j1, w) /\ Submitting(j1, w)'
              /\ worker_status[w].busy /\ ~worker_status'[w].busy)
                => \/ WritesBusy(poll, poll', w, FALSE)
                   \/ WritesBusy(boot, boot', w, FALSE)
                   \/ poll.at = "clear" /\ poll' # poll /\ workers[poll.i] = w
                   \/ boot.at = "clear" /\ boot' # boot /\ workers[boot.i] = w
                   \/ \E k \in Jobs \ {j1} :
                         /\ pc[k] = "reprobe_w" /\ pc'[k] = "done"
                         /\ worker[k] = w
                         /\ ~Get(probe[k].body, "busy", FALSE)
      ]_vars

\* C24 witness: a call is waiting for the first worker of the pool, which is
\* recorded busy; the other call has selected the second worker although the
\* first has no more jobs counted.
C24_Witness ==
    \E j1, j2 \in Jobs :
        /\ j1 # j2
        /\ pc[j1] = "wait" /\ worker[j1] = 1 /\ resp[j1] = NoResp
        /\ worker_status[1].healthy /\ worker_status[1].busy
        /\ pc[j2] = "mark" /\ worker[j2] = 2
        /\ stats.requests_per_worker[1] <= stats.requests_per_worker[2]

\* ------------------------------------------------------------------ C25
\* C25: the finally block of /predict clears busy and current_request for
\* every answer of a submission past the gate (200, 400 for a missing image,
\* 400 for an undecodable image, 500), and every such submission gets there;
\* a worker is busy exactly while a submission is past its gate; and
\* requests_processed changes only by one and only in the step in which
\* recognition completes: with every 200 answer, with no 400 answer (and
\* with a 500 answer when the exception came after the count).
C25_GateRelease ==
    [][\A w \in Ids(workers) :
          /\ (handler[w].at \in {"run", "noimage"} /\ handler'[w] # handler[w])
                => /\ handler'[w].at = "finally"
                   /\ handler'[w].out.status \in {200, 400, 500}
                   /\ worker_state'[w].busy
          /\ (handler[w].at = "finally" /\ handler'[w] # handler[w])
                => /\ handler'[w].at = "none"
                   /\ ~worker_state'[w].busy
                   /\ worker_state'[w].current_request = None
          /\ worker_state'[w].busy <=> handler'[w].at # "none"
          /\ (worker_state'[w].requests_processed # worker_state[w].requests_processed)
                => /\ handler[w].at = "run" /\ handler'[w].at = "finally"
                   /\ handler'[w].out.status \in {200, 500}
                   /\ worker_state'[w].requests_processed
                         = worker_state[w].requests_processed + 1
          /\ (handler[w].at = "run" /\ handler'[w].at = "finally"
                /\ handler'[w].out.status = 200)
                => worker_state'[w].requests_processed
                      = worker_state[w].requests_processed + 1
      ]_vars

\* C25 witness: one worker has answered two calls past its gate, one with 200
\* and one with an error, and is idle again with one request processed (both
\* answers are on their way to the calls).
C25_Witness ==
    \E j1, j2 \in Jobs : \E w \in Ids(workers) :
        /\ worker[j1] = w /\ worker[j2] = w
        /\ pc[j1] = "wait" /\ resp[j1].status = 200
        /\ pc[j2] = "wait" /\ resp[j2].status \in {400, 500}
        /\ handler[w] = NoHandler
        /\ worker_state[w] = [busy |-> FALSE, current_request |-> None,
                               requests_processed |-> 1]

\* ------------------------------------------------------------------ C26
\* C26: a step of a forward_request call leaves the record of every worker
\* other than the one it selected as it was; a step of _check_all_workers (in
\* the checker thread or in the main thread) and the post-job re-probe leave
\* every ClusterStats counter as it was; and a /predict request that predict()
\* answers itself (rejected with 400, or 500 for a JSON body that is not an
\* object) leaves the counters, the registry and the workers as they were.
C26_Frame ==
    [][/\ \A j \in Jobs :
            /\ (pc'[j] # pc[j] /\ pc[j] \notin {"idle", "rejected"}
                /\ pc'[j] # "rejected")
                  => \A v \in Ids(workers) \ {worker[j]} :
                        worker_status'[v] = worker_status[v]
            /\ (pc[j] \in {"reprobe", "reprobe_w"} /\ pc'[j] # pc[j]) => stats' = stats
            /\ (pc'[j] # pc[j] /\ (pc[j] = "rejected" \/ pc'[j] = "rejected"))
                  => /\ stats' = stats
                     /\ worker_status' = worker_status
                     /\ worker_state' = worker_state
                     /\ handler' = handler
            /\ (pc[j] # "rejected" /\ pc'[j] = "rejected")
                  => result'[j].status \in {400, 500} /\ result'[j].body.ok = FALSE
       /\ (poll' # poll \/ boot' # boot) => stats' = stats
      ]_vars

\* C26 witness: a first request went through forward_request and was served;
\* a second request has been rejected with 400 and the counters are those
\* the first one left.
C26_Witness ==
    \E j, k \in Jobs :
        /\ pc[k] = "returned"
        /\ pc[j] = "rejected" /\ result[j].status = 400
        /\ stats.total_requests = 1 /\ stats.successful_requests = 1
        /\ stats.failed_requests = 0

====
